---- MODULE Spec2Model ----
\* Model of utils/database.ts (connection guard, schema creation, data access)
\* and of the callers that use it.  JavaScript runs one callback at a time and
\* suspends only at `await`: every action below is one such uninterrupted run,
\* from a call or a promise settlement up to the next `await`.
EXTENDS Integers, Sequences, FiniteSets, TLC

\* ------------------------------------------------------------------ bounds
NCallers == 3        \* components that call into the module, one call each
MaxFaults == 1       \* store faults (failing open or statement) injected per run
MaxStoredRows == 1   \* rows per table already persisted when the process starts
NProcs == 2          \* register() / login() calls of the auth context, in flight together
MaxQueries == 2      \* changes of a list screen's searchQuery

Callers == 1..NCallers
Procs == 1..NProcs
NoHandle == 0        \* JavaScript null for `db` / `database`
NoPromise == 0       \* JavaScript null for `initPromise`
Null == "NULL"       \* SQL NULL

TableNames == {"mahasiswa", "users", "prodi", "fakultas"}

VARIABLES
  db,           \* module global `db`: the stored handle, or NoHandle
  initPromise,  \* module global `initPromise`: id of the attempt whose promise it holds
  promise,      \* promise[a]: the promise returned by the async block of attempt a
  attempt,      \* attempt[a]: position and locals of the async block started by caller a
  caller,       \* caller[c]: position of caller c and what it observed
  handles,      \* handles[a]: state of the native handle opened by attempt a
  store,        \* the persisted database file mahasiswa.db
  store0,       \* the database file as it was when the process started
  opens,        \* number of openDatabaseAsync calls issued
  stmtCount,    \* stmtCount[s]: number of times schema statement s was executed
  faults,       \* number of failing opens / statements injected so far
  seq,          \* seq[t]: largest id AUTOINCREMENT has given out in table t
  now,          \* CURRENT_TIMESTAMP of the store's clock
  last,         \* outcome of the latest data-access call
  user,         \* AuthProvider state `user`: no record, or the record
  session,      \* SecureStore item SESSION_KEY: none, or the stored record
  proc,         \* proc[p]: a register() or login() call and where it stands
  screen        \* a list screen: searchQuery, the list shown, requests in flight

uiVars == <<user, session, proc, screen>>
dataVars == <<seq, now, last, uiVars>>

vars == <<db, initPromise, promise, attempt, caller, handles, store, store0,
          opens, stmtCount, faults, seq, now, last, user, session, proc, screen>>

\* ------------------------------------------------------- error messages
\* An error message is a sequence of words; includes() is String.prototype.includes.
Includes(msg, phrase) ==
  \E i \in 0..(Len(msg) - Len(phrase)) :
     \A j \in 1..Len(phrase) : msg[i + j] = phrase[j]

MsgDuplicateColumn == <<"duplicate", "column", "name", ":", "fakultas">>
MsgIOError == <<"disk", "I/O", "error">>

\* ------------------------------------------------------------ the store
\* CREATE TABLE IF NOT EXISTS t (...): a no-op when t exists; the mahasiswa
\* table is created with the fakultas column.
ExecCreate_DropFirst(s, t) ==
  [ok |-> TRUE, msg |-> <<>>,
   store |-> [s EXCEPT !.tables = @ \cup {t},
                       !.hasFakultasCol = @ \/ t = "mahasiswa",
                       !.rows[t] = {}]]

ExecCreate(s, t) ==
  IF t \in s.tables
    THEN [ok |-> TRUE, msg |-> <<>>, store |-> s]
    ELSE [ok |-> TRUE, msg |-> <<>>,
          store |-> [s EXCEPT !.tables = @ \cup {t},
                              !.hasFakultasCol = @ \/ t = "mahasiswa",
                              !.rows[t] = {}]]

\* ALTER TABLE mahasiswa ADD COLUMN fakultas TEXT: fails when the column is
\* there; otherwise every existing row reads NULL in the new column.
ExecAlter(s) ==
  IF s.hasFakultasCol
    THEN [ok |-> FALSE, msg |-> MsgDuplicateColumn, store |-> s]
    ELSE [ok |-> TRUE, msg |-> <<>>,
          store |-> [s EXCEPT !.hasFakultasCol = TRUE,
                              !.rows["mahasiswa"] =
                                 {[r EXCEPT !.fakultas = Null] : r \in @}]]

\* ------------------------------------------------------- initDatabase
\* The awaited steps of the async block, in order.
InitSteps_NoFakultas == <<"open", "mahasiswa", "users", "alter", "prodi">>

InitSteps == <<"open", "mahasiswa", "users", "alter", "prodi", "fakultas">>

StepIndex(s) == CHOOSE i \in 1..Len(InitSteps) : InitSteps[i] = s
IsLastStep(s) == StepIndex(s) = Len(InitSteps)
StepAfter(s) == InitSteps[StepIndex(s) + 1]
StepNames == {InitSteps[i] : i \in 1..Len(InitSteps)}

\* `if (initPromise)`: an attempt's promise is stored, join it.
InFlight_Never == FALSE

InFlight_AfterOpen == initPromise # NoPromise /\ attempt[initPromise].pc # "open"

InFlight == initPromise # NoPromise

\* `if (db)`: already initialised.
AlreadyInitialized == db # NoHandle

\* `if (!db)` in getDatabase.
NeedsInit == db = NoHandle

\* `db = database` is reached after the last statement only.
StoresHandleAfter_Open(s) == s = "open"

StoresHandleAfter(s) == IsLastStep(s)

\* catch block: `initPromise = null`.
PromiseAfterFailure_Keep(p) == p

PromiseAfterFailure(p) == NoPromise

\* inner catch around ALTER TABLE: both branches only log.
AlterLog(msg) ==
  IF Includes(msg, <<"duplicate", "column", "name">>)
       \/ Includes(msg, <<"already", "exists">>)
    THEN "exists" ELSE "error"

AlterFailureIsFatal_UnlessDuplicate(msg) == AlterLog(msg) = "error"

AlterFailureIsFatal(msg) == FALSE

GuardState ==
  IF db # NoHandle THEN "Ready"
  ELSE IF initPromise # NoPromise THEN "Initializing" ELSE "Uninitialized"


\* ------------------------------------------------------------ records
NoCall == [fn |-> "none", ok |-> TRUE, msg |-> <<>>, id |-> 0, arg |-> 0, out |-> <<>>]

IdleCaller ==
  [pc |-> "idle", kind |-> "none", awaits |-> NoPromise, result |-> NoHandle,
   err |-> "none", sawState |-> "none", sawPromise |-> NoPromise, ran |-> "no"]

NoAttempt ==
  [pc |-> "none", database |-> NoHandle, alter |-> "none", failedAt |-> "none"]

NoPromiseRec == [state |-> "none", value |-> NoHandle, err |-> "none"]

\* `null` of `User | null`: a sequence of no record; a record is <<record>>.
NoUser == <<>>

\* A call of register() or login() that has not been made.
NoResult == [success |-> FALSE, message |-> "none", threw |-> FALSE]
IdleProc ==
  [fn |-> "none", pc |-> "idle", name |-> "", email |-> "", password |-> "",
   existing |-> "none", ret |-> NoResult, before |-> <<NoUser, NoUser>>]

\* A list screen that is not mounted.
\* `pending` holds the calls of loadMahasiswa / handleSearch whose result has
\* not arrived, `issued` counts the changes of searchQuery, and `shown` is the
\* count at which the call that set the displayed list was made.
NoScreen ==
  [mounted |-> FALSE, searchQuery |-> "", list |-> <<>>, pending |-> {}, issued |-> 0,
   shown |-> 0, alert |-> FALSE]

Settled(p) == promise[p].state \in {"fulfilled", "rejected"}

\* What caller c does with the value h that its call gave it.  A component that
\* called initDatabase() is done; a data-access function, which called
\* getDatabase(), gets an exception for a null value and otherwise goes on to
\* run its statement on h.
Deliver(cr, h) ==
  IF cr.kind = "init" THEN [cr EXCEPT !.pc = "returned", !.result = h]
  ELSE IF h = NoHandle THEN [cr EXCEPT !.pc = "threw", !.err = "null handle"]
  ELSE [cr EXCEPT !.pc = "hasHandle", !.result = h]

Observe(c, k) ==
  [caller[c] EXCEPT !.kind = k, !.sawState = GuardState, !.sawPromise = initPromise]

\* initDatabase(), run by caller c up to its first await.
InitDatabaseCall(c, k) ==
  IF InFlight
    THEN /\ caller' = [caller EXCEPT ![c] =
                         [Observe(c, k) EXCEPT !.pc = "awaiting", !.awaits = initPromise]]
         /\ UNCHANGED <<db, initPromise, promise, attempt, opens>>
    ELSE IF AlreadyInitialized
      THEN /\ caller' = [caller EXCEPT ![c] = Deliver(Observe(c, k), db)]
           /\ UNCHANGED <<db, initPromise, promise, attempt, opens>>
      ELSE \* the async block runs up to `await SQLite.openDatabaseAsync(...)`
           /\ attempt' = [attempt EXCEPT ![c] = [NoAttempt EXCEPT !.pc = "open"]]
           /\ promise' = [promise EXCEPT ![c] = [NoPromiseRec EXCEPT !.state = "pending"]]
           /\ initPromise' = c
           /\ opens' = opens + 1
           /\ caller' = [caller EXCEPT ![c] =
                           [Observe(c, k) EXCEPT !.pc = "awaiting", !.awaits = c]]
           /\ UNCHANGED db

\* getDatabase(), run by caller c up to its first await.
GetDatabaseCall(c, k) ==
  IF NeedsInit
    THEN InitDatabaseCall(c, k)
    ELSE /\ caller' = [caller EXCEPT ![c] = Deliver(Observe(c, k), db)]
         /\ UNCHANGED <<db, initPromise, promise, attempt, opens>>

\* Callers are interchangeable: they make their calls in index order.
MayCall(c) == caller[c].pc = "idle" /\ \A d \in 1..(c - 1) : caller[d].pc # "idle"

\* A component calls initDatabase() directly (session restore, list screens).
CallInit(c) ==
  /\ MayCall(c)
  /\ InitDatabaseCall(c, "init")
  /\ UNCHANGED <<handles, store, store0, dataVars, stmtCount, faults>>

\* A data-access function (add*, getAll*, update*, delete*, search*, ...) is
\* called: its first awaited call is getDatabase().
CallCrud(c) ==
  /\ MayCall(c)
  /\ GetDatabaseCall(c, "crud")
  /\ UNCHANGED <<handles, store, store0, dataVars, stmtCount, faults>>

\* `await initPromise` / `await initDatabase()` resumes with the settled result.
Resume(c) ==
  /\ caller[c].pc = "awaiting"
  /\ Settled(caller[c].awaits)
  /\ LET p == promise[caller[c].awaits] IN
       caller' = [caller EXCEPT ![c] =
                    IF p.state = "fulfilled"
                      THEN Deliver(@, p.value)
                      ELSE [@ EXCEPT !.pc = "threw", !.err = p.err]]
  /\ UNCHANGED <<db, initPromise, promise, attempt, handles, store, store0, dataVars,
                 opens, stmtCount, faults>>

SchemaComplete(s) == TableNames \subseteq s.tables

\* The statement of a data-access function runs on the handle it was given.
ExecStatement(c) ==
  /\ caller[c].pc = "hasHandle"
  /\ LET h == caller[c].result
         ready == /\ db = h
                  /\ attempt[h].pc = "ready"
                  /\ SchemaComplete(store)
     IN caller' = [caller EXCEPT ![c] =
          [@ EXCEPT !.pc = "returned", !.ran = IF ready THEN "ready" ELSE "early"]]
  /\ UNCHANGED <<db, initPromise, promise, attempt, handles, store, store0, dataVars,
                 opens, stmtCount, faults>>

\* ------------------------------------------ the async block of initDatabase
\* Promise reactions are microtasks: the callers awaiting a settled promise
\* resume before the next native completion (open, statement, close) is
\* delivered to JavaScript.
MicrotasksDrained ==
  \A c \in Callers : caller[c].pc = "awaiting" => ~Settled(caller[c].awaits)

\* Continuation after step s succeeded, up to the next await or the return.
Continue(a, s, att) ==
  LET newDb == IF StoresHandleAfter(s) THEN att.database ELSE db IN
  /\ db' = newDb
  /\ IF IsLastStep(s)
       THEN /\ attempt' = [attempt EXCEPT ![a] = [att EXCEPT !.pc = "ready"]]
            /\ promise' = [promise EXCEPT ![a] =
                             [state |-> "fulfilled", value |-> newDb, err |-> "none"]]
       ELSE /\ attempt' = [attempt EXCEPT ![a] = [att EXCEPT !.pc = StepAfter(s)]]
            /\ UNCHANGED promise
  /\ UNCHANGED initPromise

Catch_NoClose(a, s, att) ==
  /\ initPromise' = PromiseAfterFailure(initPromise)
  /\ db' = NoHandle
  /\ attempt' = [attempt EXCEPT ![a] = [att EXCEPT !.pc = "failed", !.failedAt = s]]
  /\ promise' = [promise EXCEPT ![a] =
                   [state |-> "rejected", value |-> NoHandle, err |-> s]]

\* The outer catch block, entered when step s threw: reset the guard, then
\* either await closeAsync() or, with nothing opened, throw at once.
Catch(a, s, att) ==
  /\ initPromise' = PromiseAfterFailure(initPromise)
  /\ db' = NoHandle
  /\ IF att.database # NoHandle
       THEN /\ attempt' = [attempt EXCEPT ![a] =
                             [att EXCEPT !.pc = "closing", !.failedAt = s]]
            /\ UNCHANGED promise
       ELSE /\ attempt' = [attempt EXCEPT ![a] =
                             [att EXCEPT !.pc = "failed", !.failedAt = s]]
            /\ promise' = [promise EXCEPT ![a] =
                             [state |-> "rejected", value |-> NoHandle, err |-> s]]

\* `database = await SQLite.openDatabaseAsync('mahasiswa.db')` resolves.
OpenOk(a) ==
  /\ MicrotasksDrained
  /\ attempt[a].pc = "open"
  /\ handles' = [handles EXCEPT ![a] = "open"]
  /\ Continue(a, "open", [attempt[a] EXCEPT !.database = a])
  /\ UNCHANGED <<caller, store, store0, dataVars, opens, stmtCount, faults>>

\* One of the CREATE TABLE IF NOT EXISTS statements has run.
CreateTable(a) ==
  /\ MicrotasksDrained
  /\ attempt[a].pc \in StepNames \cap TableNames
  /\ LET s == attempt[a].pc
         res == ExecCreate(store, s)
     IN /\ store' = res.store
        /\ stmtCount' = [stmtCount EXCEPT ![s] = @ + 1]
        /\ IF res.ok THEN Continue(a, s, attempt[a]) ELSE Catch(a, s, attempt[a])
  /\ UNCHANGED <<caller, handles, store0, dataVars, opens, faults>>

\* ALTER TABLE mahasiswa ADD COLUMN fakultas has run, inside its own try/catch.
AlterTable(a) ==
  /\ MicrotasksDrained
  /\ attempt[a].pc = "alter"
  /\ LET res == ExecAlter(store) IN
       /\ store' = res.store
       /\ stmtCount' = [stmtCount EXCEPT !["alter"] = @ + 1]
       /\ IF res.ok
            THEN Continue(a, "alter", [attempt[a] EXCEPT !.alter = "added"])
            ELSE IF AlterFailureIsFatal(res.msg)
              THEN Catch(a, "alter", attempt[a])
              ELSE Continue(a, "alter", [attempt[a] EXCEPT !.alter = AlterLog(res.msg)])
  /\ UNCHANGED <<caller, handles, store0, dataVars, opens, faults>>

\* The store faults on the awaited call of the current step (open or statement).
StepFault(a) ==
  /\ MicrotasksDrained
  /\ attempt[a].pc \in StepNames
  /\ faults < MaxFaults
  /\ faults' = faults + 1
  /\ LET s == attempt[a].pc IN
       IF s = "alter" /\ ~AlterFailureIsFatal(MsgIOError)
         THEN Continue(a, s, [attempt[a] EXCEPT !.alter = AlterLog(MsgIOError)])
         ELSE Catch(a, s, attempt[a])
  /\ UNCHANGED <<caller, handles, store, store0, dataVars, opens, stmtCount>>

\* `await database.closeAsync()` in the catch block returns; the block throws.
CloseOk(a) ==
  /\ MicrotasksDrained
  /\ attempt[a].pc = "closing"
  /\ handles' = [handles EXCEPT ![a] = "closed"]
  /\ attempt' = [attempt EXCEPT ![a].pc = "failed"]
  /\ promise' = [promise EXCEPT ![a] =
                   [state |-> "rejected", value |-> NoHandle, err |-> attempt[a].failedAt]]
  /\ UNCHANGED <<db, initPromise, caller, store, store0, dataVars, opens, stmtCount, faults>>

\* closeAsync() itself fails: the inner catch logs it; the block throws as before.
\* The handle stays open, with nothing left that refers to it ("leaked").
CloseFault(a) ==
  /\ MicrotasksDrained
  /\ attempt[a].pc = "closing"
  /\ handles' = [handles EXCEPT ![a] = "leaked"]
  /\ attempt' = [attempt EXCEPT ![a].pc = "failed"]
  /\ promise' = [promise EXCEPT ![a] =
                   [state |-> "rejected", value |-> NoHandle, err |-> attempt[a].failedAt]]
  /\ UNCHANGED <<db, initPromise, caller, store, store0, dataVars, opens, stmtCount,
                 faults>>

\* ------------------------------------------------------- persisted stores
NoColumn == "NOCOLUMN"   \* reading a column the table does not have

StoredMahasiswa(i, fak) ==
  [id |-> i, nim |-> "N1", nama |-> "Ani", jurusan |-> "TI", fakultas |-> fak,
   semester |-> 1, email |-> "a@x", created_at |-> 0]
StoredUser(i) ==
  [id |-> i, name |-> "A", email |-> "a@x", password |-> "p", created_at |-> 0]
StoredProdi(i) ==
  [id |-> i, kode_prodi |-> "TI", nama_prodi |-> "Informatika", fakultas |-> "Teknik",
   akreditasi |-> Null, deskripsi |-> Null, created_at |-> 0]
StoredFakultas(i) ==
  [id |-> i, kode_fakultas |-> "FT", nama_fakultas |-> "Teknik",
   deskripsi |-> Null, created_at |-> 0]

\* A first start: no table exists.
FreshStore ==
  [tables |-> {}, hasFakultasCol |-> FALSE, rows |-> [t \in TableNames |-> {}]]

\* An installation made by the earlier release: no users table, and a
\* mahasiswa table without the fakultas column.
LegacyStore(n) ==
  [tables |-> {"mahasiswa", "prodi", "fakultas"}, hasFakultasCol |-> FALSE,
   rows |-> [t \in TableNames |->
      CASE t = "mahasiswa" -> {StoredMahasiswa(i, NoColumn) : i \in 1..n}
        [] t = "prodi" -> {StoredProdi(i) : i \in 1..n}
        [] t = "fakultas" -> {StoredFakultas(i) : i \in 1..n}
        [] OTHER -> {}]]

\* An installation made by this release: a restart of the app.
CurrentStore(n) ==
  [tables |-> TableNames, hasFakultasCol |-> TRUE,
   rows |-> [t \in TableNames |->
      CASE t = "mahasiswa" -> {StoredMahasiswa(i, "Teknik") : i \in 1..n}
        [] t = "users" -> {StoredUser(i) : i \in 1..n}
        [] t = "prodi" -> {StoredProdi(i) : i \in 1..n}
        [] OTHER -> {StoredFakultas(i) : i \in 1..n}]]

PersistedStores ==
  {FreshStore, LegacyStore(MaxStoredRows), CurrentStore(MaxStoredRows)}

\* ------------------------------------------------------------ behaviours
\* Module load: `let db = null; let initPromise = null;`
Init ==
  /\ db = NoHandle
  /\ initPromise = NoPromise
  /\ promise = [a \in Callers |-> NoPromiseRec]
  /\ attempt = [a \in Callers |-> NoAttempt]
  /\ caller = [c \in Callers |-> IdleCaller]
  /\ handles = [a \in Callers |-> "none"]
  /\ store \in PersistedStores
  /\ store0 = store
  /\ opens = 0
  /\ stmtCount = [s \in (StepNames \cup TableNames \cup {"alter"}) \ {"open"} |-> 0]
  /\ faults = 0
  /\ seq = [t \in TableNames |-> Cardinality(store.rows[t])]
  /\ now = 0
  /\ last = NoCall
  /\ user = NoUser
  /\ session = NoUser
  /\ proc = [p \in Procs |-> IdleProc]
  /\ screen = NoScreen

Next ==
  \/ \E c \in Callers : CallInit(c)
  \/ \E c \in Callers : CallCrud(c)
  \/ \E c \in Callers : Resume(c)
  \/ \E c \in Callers : ExecStatement(c)
  \/ \E a \in Callers : OpenOk(a)
  \/ \E a \in Callers : CreateTable(a)
  \/ \E a \in Callers : AlterTable(a)
  \/ \E a \in Callers : StepFault(a)
  \/ \E a \in Callers : CloseOk(a)
  \/ \E a \in Callers : CloseFault(a)

Spec == Init /\ [][Next]_vars

TypeOK ==
  /\ db \in {NoHandle} \cup Callers
  /\ initPromise \in {NoPromise} \cup Callers
  /\ opens \in 0..NCallers
  /\ faults \in 0..MaxFaults

\* ================================================== connection guard
Delivered(c) == caller[c].pc \in {"returned", "hasHandle"}
    \/ (caller[c].pc = "threw" /\ caller[c].err = "statement")
InitFailed(c) == caller[c].pc = "threw" /\ caller[c].err \in StepNames
Called(c) == caller[c].pc # "idle"
AttemptFailed(a) == attempt[a].pc \in {"closing", "failed"}

\* C1: when the store never fails, any number of concurrent initDatabase /
\* getDatabase callers cause at most one openDatabaseAsync call and at most one
\* execution of each schema statement, no caller fails, every caller that has
\* its result holds the one stored handle, and once all callers have their
\* result exactly one open and one schema sequence have run.
C1_AtMostOnceInit ==
  faults = 0 =>
    /\ opens <= 1
    /\ \A s \in DOMAIN stmtCount : stmtCount[s] <= 1
    /\ \A c \in Callers : ~InitFailed(c) /\ caller[c].err # "null handle"
    /\ \A c \in Callers : Delivered(c) =>
          /\ caller[c].result # NoHandle
          /\ caller[c].result = db
          /\ opens = 1
          /\ \A s \in DOMAIN stmtCount : stmtCount[s] = 1
          /\ handles[db] = "open"

C1_Witness ==
  /\ faults = 0
  /\ \A c \in Callers : caller[c].pc = "returned" /\ caller[c].result = db
  /\ \E c, d \in Callers : caller[c].kind = "init" /\ caller[d].kind = "crud"
  /\ Cardinality({c \in Callers : caller[c].sawState = "Initializing"}) >= 2
  /\ opens = 1

\* C2: a caller that calls while an attempt is in flight (initPromise set,
\* db not yet stored) issues no open of its own, awaits that attempt's
\* promise and ends with that promise's outcome: the attempt's handle when it
\* is fulfilled, the attempt's failure and no handle when it is rejected; the
\* caller that started the attempt ends the same way.
C2_JoinersShareOutcome ==
  \A c \in Callers : caller[c].sawState = "Initializing" =>
    LET p == caller[c].sawPromise IN
    /\ attempt[c].pc = "none"
    /\ caller[c].awaits = p
    /\ Delivered(c) => /\ promise[p].state = "fulfilled"
                       /\ caller[c].result = promise[p].value
                       /\ caller[c].result = p
                       /\ ~InitFailed(p)
    /\ InitFailed(c) => /\ promise[p].state = "rejected"
                        /\ caller[c].err = promise[p].err
                        /\ caller[c].result = NoHandle
                        /\ ~Delivered(p)
    /\ caller[c].err # "null handle"

C2_Witness ==
  \E c, d \in Callers :
    /\ c # d
    /\ caller[c].sawState = "Initializing" /\ caller[d].sawState = "Initializing"
    /\ caller[c].sawPromise = caller[d].sawPromise
    /\ InitFailed(c) /\ InitFailed(d) /\ InitFailed(caller[c].sawPromise)
    /\ caller[c].err = caller[d].err

\* C3: the step on which an attempt fails leaves db and initPromise null; a
\* failed attempt's promise is never the stored initPromise, so no later call
\* can join it; callers awaiting a failed attempt get the failure and no
\* handle; a call that finds the guard uninitialised starts its own attempt.
C3_Inv ==
  /\ initPromise # NoPromise =>
        ~AttemptFailed(initPromise) /\ promise[initPromise].state # "rejected"
  /\ db # NoHandle => ~AttemptFailed(db)
  /\ \A c \in Callers :
        (caller[c].awaits # NoPromise /\ AttemptFailed(caller[c].awaits)) =>
           (caller[c].pc = "awaiting" \/ InitFailed(c)) /\ caller[c].result = NoHandle
  /\ \A c \in Callers :
        caller[c].sawState = "Uninitialized" =>
           caller[c].awaits = c /\ attempt[c].pc # "none"

C3_Step ==
  \A a \in Callers :
     (~AttemptFailed(a) /\ AttemptFailed(a)') =>
        (db' = NoHandle /\ initPromise' = NoPromise)

C3_FailureResetsGuard == [](C3_Inv) /\ [][C3_Step]_vars

C3_Witness ==
  \E a, b \in Callers :
    /\ attempt[a].pc = "failed" /\ InitFailed(a)
    /\ caller[b].sawState = "Uninitialized"
    /\ attempt[b].pc = "ready" /\ db = b
    /\ caller[b].pc = "returned" /\ caller[b].result = b

\* C4: a handle that getDatabase has given to its caller is the handle of an
\* attempt that ran every schema statement, it is the stored db, it is open,
\* and all four tables exist.
C4_HandleOnlyWhenReady ==
  \A c \in Callers :
     (caller[c].kind = "crud" /\ caller[c].pc \in {"returned", "hasHandle"}) =>
        LET h == caller[c].result IN
        /\ h # NoHandle
        /\ attempt[h].pc = "ready"
        /\ promise[h].state = "fulfilled"
        /\ db = h
        /\ handles[h] = "open"
        /\ SchemaComplete(store)

C4_Witness ==
  \E c \in Callers :
    /\ caller[c].kind = "crud" /\ caller[c].pc = "hasHandle"
    /\ caller[c].sawState = "Initializing"
    /\ caller[c].result = db

\* C5: once db is stored it never changes, no further open is issued and no
\* further schema statement runs; every call made in that state starts no
\* attempt and ends with the stored handle.
C5_Inv ==
  \A c \in Callers : caller[c].sawState = "Ready" =>
     /\ attempt[c].pc = "none"
     /\ ~InitFailed(c) /\ caller[c].err # "null handle"
     /\ (caller[c].pc \in {"returned", "hasHandle"}) => caller[c].result = db
     /\ db # NoHandle

C5_Step ==
  db # NoHandle =>
     /\ db' = db
     /\ opens' = opens
     /\ stmtCount' = stmtCount
     /\ store' = store

C5_ReadyIsStable == [](C5_Inv) /\ [][C5_Step]_vars

C5_Witness ==
  \E c, d \in Callers :
    /\ c # d
    /\ caller[c].sawState = "Ready" /\ caller[c].kind = "init"
    /\ caller[c].pc = "returned" /\ caller[c].result = db
    /\ caller[d].sawState = "Ready" /\ caller[d].kind = "crud"
    /\ caller[d].pc = "hasHandle" /\ caller[d].result = db

\* ================================================== schema definition
\* C6: no attempt fails on the ALTER TABLE step; an attempt whose ALTER TABLE
\* failed (duplicate column or any other error) goes on to the prodi and
\* fakultas statements, and when those succeed it stores its handle.
C6_AlterFailureNonFatal ==
  \A a \in Callers :
    /\ attempt[a].failedAt # "alter"
    /\ attempt[a].alter \in {"exists", "error"} =>
          \/ attempt[a].pc \in {"prodi", "fakultas"}
          \/ attempt[a].failedAt \in {"prodi", "fakultas"}
          \/ /\ attempt[a].pc = "ready"
             /\ db = a
             /\ promise[a] = [state |-> "fulfilled", value |-> a, err |-> "none"]
             /\ {"prodi", "fakultas"} \subseteq store.tables

C6_Witness ==
  \E a \in Callers :
    /\ attempt[a].alter = "error"
    /\ attempt[a].pc = "ready"
    /\ caller[a].pc = "returned" /\ caller[a].result = a

\* C7: when the process starts on a store that already has the four tables
\* and the fakultas column, initialisation changes no table and no row, the
\* ALTER TABLE step ends as a duplicate-column no-op, and unless the store
\* faults no attempt fails and no caller gets an error.
IsCurrent(s) == SchemaComplete(s) /\ s.hasFakultasCol

C7_RestartIsIdempotent ==
  IsCurrent(store0) =>
    /\ store = store0
    /\ \A a \in Callers :
          attempt[a].alter \in {"none", "added", "exists"} \/ faults > 0
    /\ faults = 0 =>
          /\ \A a \in Callers : ~AttemptFailed(a) /\ attempt[a].failedAt = "none"
          /\ \A c \in Callers : caller[c].pc # "threw"

C7_Witness ==
  /\ IsCurrent(store0)
  /\ store0.rows["mahasiswa"] # {}
  /\ faults = 0
  /\ db # NoHandle
  /\ attempt[db].alter = "exists"
  /\ caller[db].pc = "returned"
  /\ store.rows = store0.rows

\* ================================================== data access
\* C8: every statement of a data-access function runs on the stored handle of
\* an attempt that has finished all its schema statements, with the four
\* tables present; only data-access callers run statements.
C8_StatementsAfterReady ==
  \A c \in Callers :
    /\ caller[c].ran # "early"
    /\ caller[c].ran = "ready" =>
          /\ caller[c].kind = "crud"
          /\ caller[c].result = db
          /\ attempt[db].pc = "ready"

C8_Witness ==
  \E c \in Callers :
    /\ caller[c].ran = "ready"
    /\ caller[c].sawState \in {"Uninitialized", "Initializing"}
    /\ caller[c].pc = "returned"

\* ================================================== the SQL statements
MaxRows == 2    \* live rows in a table
MaxId == 3      \* ids AUTOINCREMENT gives out per table
MaxTime == 1    \* readings of the store's clock

Undefined == "undefined"   \* a property the caller left out

\* `x ?? null` and `x || null`
NullishCoalesce(v) == IF v \in {Undefined, Null} THEN Null ELSE v
OrNull_Empty(v) == IF v \in {Undefined, Null, ""} THEN "" ELSE v
OrNull(v) == IF v \in {Undefined, Null, ""} THEN Null ELSE v

\* The strings of the model and their characters.
EmailStrings == {"a@x", "A@X", "b@x"}
Chars(str) ==
  CASE str = "a@x" -> <<"a", "@", "x">>
    [] str = "A@X" -> <<"A", "@", "X">>
    [] str = "b@x" -> <<"b", "@", "x">>
    [] str = "N1" -> <<"N", "1">>
    [] str = "N2" -> <<"N", "2">>
    [] str = "Budi" -> <<"B", "u", "d", "i">>
    [] str = "Ani" -> <<"A", "n", "i">>
    [] str = "TI" -> <<"T", "I">>
    [] str = "SI" -> <<"S", "I">>
    [] str = "Teknik" -> <<"T", "e", "k", "n", "i", "k">>
    [] str = "Ekonomi" -> <<"E", "k", "o", "n", "o", "m", "i">>
    [] str = "Sistem" -> <<"S", "i", "s", "t", "e", "m">>
    [] str = "Informatika" -> <<"I", "n", "f", "o", "r", "m", "a", "t", "i", "k", "a">>
    [] str = "A" -> <<"A">>
    [] str = "d" -> <<"d">>
    [] str = "FT" -> <<"F", "T">>
    [] str = "FE" -> <<"F", "E">>
    [] str = "e" -> <<"e">>
    [] str = "si" -> <<"s", "i">>
    [] str = "%" -> <<"%">>
    [] str = "_" -> <<"_">>
    [] str = " " -> <<" ">>
    [] str = "" -> <<>>
FromChars(cs) == CHOOSE str \in EmailStrings : Chars(str) = cs

\* The characters of the model in the order of their codes.
AsciiOrder ==
  <<"%", "1", "2", "@", "A", "B", "E", "F", "I", "N", "S", "T", "X", "_", "a",
    "b", "d", "e", "f", "i", "k", "m", "n", "o", "r", "s", "t", "u", "x">>
CharCode(ch) == CHOOSE i \in DOMAIN AsciiOrder : AsciiOrder[i] = ch

\* String.prototype.toLowerCase, character by character.
LowerChar(ch) ==
  CASE ch = "A" -> "a" [] ch = "B" -> "b" [] ch = "E" -> "e"
    [] ch = "F" -> "f" [] ch = "I" -> "i" [] ch = "N" -> "n"
    [] ch = "S" -> "s" [] ch = "T" -> "t" [] ch = "X" -> "x" [] OTHER -> ch
toLowerCase_Identity(str) == str
toLowerCase(str) ==
  FromChars([i \in DOMAIN Chars(str) |-> LowerChar(Chars(str)[i])])

\* The value bound to a column is SQL NULL; semester is always bound to a number.
NumericColumns == {"semester"}
IsNull(col, v) == col \notin NumericColumns /\ v = Null

\* Column constraints of the four CREATE TABLE statements.
UniqueColumn ==
  [mahasiswa |-> "nim", users |-> "email", prodi |-> "kode_prodi",
   fakultas |-> "kode_fakultas"]
NotNullColumns ==
  [mahasiswa |-> {"nim", "nama", "jurusan", "semester", "email"},
   users |-> {"name", "email", "password"},
   prodi |-> {"kode_prodi", "nama_prodi", "fakultas"},
   fakultas |-> {"kode_fakultas", "nama_fakultas"}]

MsgUnique(t) == <<"UNIQUE", "constraint", "failed", ":", t, ".", UniqueColumn[t]>>
MsgNotNull(t) == <<"NOT", "NULL", "constraint", "failed", ":", t>>
MsgNoColumn == <<"table", "mahasiswa", "has", "no", "column", "named", "fakultas">>
IsUniqueViolation(msg) == Includes(msg, <<"UNIQUE", "constraint", "failed">>)

\* The error SQLite raises when row `self` of table t would hold vals, or <<>>.
ConstraintError(s, t, vals, self) ==
  IF t = "mahasiswa" /\ ~s.hasFakultasCol THEN MsgNoColumn
  ELSE IF \E col \in NotNullColumns[t] : IsNull(col, vals[col]) THEN MsgNotNull(t)
  ELSE IF \E r \in s.rows[t] :
            r.id # self /\ r[UniqueColumn[t]] = vals[UniqueColumn[t]]
    THEN MsgUnique(t)
  ELSE <<>>

\* INSERT INTO t (...) VALUES (...): id from AUTOINCREMENT, created_at from
\* DEFAULT CURRENT_TIMESTAMP.
SqlInsert(s, sq, time, t, vals) ==
  LET err == ConstraintError(s, t, vals, 0) IN
  IF err # <<>>
    THEN [ok |-> FALSE, msg |-> err, id |-> 0, store |-> s, seq |-> sq]
    ELSE LET id == sq[t] + 1
             row == vals @@ [id |-> id, created_at |-> time]
         IN [ok |-> TRUE, msg |-> <<>>, id |-> id,
             store |-> [s EXCEPT !.rows[t] = @ \cup {row}],
             seq |-> [sq EXCEPT ![t] = id]]

\* UPDATE t SET ... WHERE id = ?: no row with that id is not an error.
SqlUpdate_Unchecked(s, sq, t, id, vals) ==
  [ok |-> TRUE, msg |-> <<>>, id |-> 0,
   store |-> [s EXCEPT !.rows[t] =
                {IF r.id = id
                   THEN vals @@ [id |-> r.id, created_at |-> r.created_at]
                   ELSE r : r \in @}],
   seq |-> sq]

SqlUpdate_Replace(s, sq, t, id, vals) ==
  LET hit == \E r \in s.rows[t] : r.id = id
      err == IF hit THEN ConstraintError(s, t, vals, id) ELSE <<>>
  IN IF err # <<>>
       THEN [ok |-> FALSE, msg |-> err, id |-> 0, store |-> s, seq |-> sq]
       ELSE [ok |-> TRUE, msg |-> <<>>, id |-> 0,
             store |-> [s EXCEPT !.rows[t] =
                          {IF r.id = id
                             THEN vals @@ [id |-> r.id, created_at |-> now]
                             ELSE r : r \in @}],
             seq |-> sq]

SqlUpdate_Patch(s, sq, t, id, vals) ==
  LET hit == \E r \in s.rows[t] : r.id = id
      err == IF hit THEN ConstraintError(s, t, vals, id) ELSE <<>>
  IN IF err # <<>>
       THEN [ok |-> FALSE, msg |-> err, id |-> 0, store |-> s, seq |-> sq]
       ELSE [ok |-> TRUE, msg |-> <<>>, id |-> 0,
             store |-> [s EXCEPT !.rows[t] =
                          {IF r.id = id
                             THEN [c \in DOMAIN r |->
                                     IF c \in DOMAIN vals /\ ~IsNull(c, vals[c])
                                       THEN vals[c] ELSE r[c]]
                             ELSE r : r \in @}],
             seq |-> sq]

SqlUpdate(s, sq, t, id, vals) ==
  LET hit == \E r \in s.rows[t] : r.id = id
      err == IF hit THEN ConstraintError(s, t, vals, id) ELSE <<>>
  IN IF err # <<>>
       THEN [ok |-> FALSE, msg |-> err, id |-> 0, store |-> s, seq |-> sq]
       ELSE [ok |-> TRUE, msg |-> <<>>, id |-> 0,
             store |-> [s EXCEPT !.rows[t] =
                          {IF r.id = id
                             THEN vals @@ [id |-> r.id, created_at |-> r.created_at]
                             ELSE r : r \in @}],
             seq |-> sq]

\* DELETE FROM t WHERE id = ?
SqlDelete_Cascade(s, sq, t, id) ==
  LET gone == {r.nama_fakultas : r \in {x \in s.rows[t] : t = "fakultas" /\ x.id = id}}
  IN [ok |-> TRUE, msg |-> <<>>, id |-> 0,
      store |-> [s EXCEPT !.rows =
                   [u \in TableNames |->
                      IF u = t THEN {r \in s.rows[u] : r.id # id}
                      ELSE IF u \in {"prodi", "mahasiswa"}
                        THEN {r \in s.rows[u] : r.fakultas \notin gone}
                      ELSE s.rows[u]]],
      seq |-> sq]
SqlDelete_All(s, sq, t, id) ==
  [ok |-> TRUE, msg |-> <<>>, id |-> 0,
   store |-> [s EXCEPT !.rows[t] = IF \E r \in @ : r.id = id THEN {} ELSE @],
   seq |-> sq]
SqlDelete(s, sq, t, id) ==
  [ok |-> TRUE, msg |-> <<>>, id |-> 0,
   store |-> [s EXCEPT !.rows[t] = {r \in @ : r.id # id}],
   seq |-> sq]

\* ================================================== data-access functions
\* Each function is: await getDatabase(); run one statement; on an error log
\* it and throw.  The result record holds what the caller gets (ok, id or the
\* thrown message) and what the store is afterwards.
Rethrow(r) == r
Wrapped(r, prefix) == IF r.ok THEN r ELSE [r EXCEPT !.msg = prefix \o @]

addMahasiswa(s, sq, time, m) ==
  Rethrow(SqlInsert(s, sq, time, "mahasiswa",
    [nim |-> m.nim, nama |-> m.nama, jurusan |-> m.jurusan,
     fakultas |-> NullishCoalesce(m.fakultas), semester |-> m.semester,
     email |-> m.email]))

updateMahasiswa(s, sq, id, m) ==
  Rethrow(SqlUpdate(s, sq, "mahasiswa", id,
    [nim |-> m.nim, nama |-> m.nama, jurusan |-> m.jurusan,
     fakultas |-> NullishCoalesce(m.fakultas), semester |-> m.semester,
     email |-> m.email]))

deleteMahasiswa(s, sq, id) == Rethrow(SqlDelete(s, sq, "mahasiswa", id))

addUser(s, sq, time, u) ==
  Rethrow(SqlInsert(s, sq, time, "users",
    [name |-> u.name, email |-> toLowerCase(u.email), password |-> u.password]))

deleteUser(s, sq, id) == Rethrow(SqlDelete(s, sq, "users", id))

addProdi(s, sq, time, p) ==
  Wrapped(SqlInsert(s, sq, time, "prodi",
            [kode_prodi |-> p.kode_prodi, nama_prodi |-> p.nama_prodi,
             fakultas |-> p.fakultas, akreditasi |-> OrNull(p.akreditasi),
             deskripsi |-> OrNull(p.deskripsi)]),
          <<"Failed", "to", "add", "prodi", ":">>)

updateProdi(s, sq, id, p) ==
  Rethrow(SqlUpdate(s, sq, "prodi", id,
    [kode_prodi |-> p.kode_prodi, nama_prodi |-> p.nama_prodi,
     fakultas |-> p.fakultas, akreditasi |-> OrNull(p.akreditasi),
     deskripsi |-> OrNull(p.deskripsi)]))

deleteProdi(s, sq, id) == Rethrow(SqlDelete(s, sq, "prodi", id))

addFakultas(s, sq, time, f) ==
  Wrapped(SqlInsert(s, sq, time, "fakultas",
            [kode_fakultas |-> f.kode_fakultas, nama_fakultas |-> f.nama_fakultas,
             deskripsi |-> OrNull(f.deskripsi)]),
          <<"Failed", "to", "add", "fakultas", ":">>)

updateFakultas(s, sq, id, f) ==
  Rethrow(SqlUpdate(s, sq, "fakultas", id,
    [kode_fakultas |-> f.kode_fakultas, nama_fakultas |-> f.nama_fakultas,
     deskripsi |-> OrNull(f.deskripsi)]))

deleteFakultas(s, sq, id) == Rethrow(SqlDelete(s, sq, "fakultas", id))

\* ------------------------------------------------------------ queries
\* The rows of a result in every order: a SELECT leaves the order of rows
\* that its ORDER BY does not tell apart to the engine.
Orderings(S) ==
  {q \in [1..Cardinality(S) -> S] : \A i, j \in DOMAIN q : i # j => q[i] # q[j]}

\* The BINARY collation of a TEXT column: memcmp of the characters.
RECURSIVE SeqLess(_, _)
SeqLess(x, y) ==
  IF y = <<>> THEN FALSE
  ELSE IF x = <<>> THEN TRUE
  ELSE IF CharCode(Head(x)) # CharCode(Head(y))
    THEN CharCode(Head(x)) < CharCode(Head(y))
  ELSE SeqLess(Tail(x), Tail(y))
BinaryLess(a, b) == SeqLess(Chars(a), Chars(b))

\* SELECT * FROM t WHERE id = ? through getFirstAsync: the row or null.
\* A sequence of no row stands for null, of one row for the row.
SqlSelectById_Any(s, t, id) ==
  IF s.rows[t] = {} THEN <<>> ELSE <<CHOOSE r \in s.rows[t] : TRUE>>
SqlSelectById(s, t, id) ==
  LET hits == {r \in s.rows[t] : r.id = id}
  IN IF hits = {} THEN <<>> ELSE <<CHOOSE r \in hits : TRUE>>

\* SELECT * FROM t ORDER BY col ASC: the results the engine may give.
SqlSelectAll_Unordered(s, t, col) == Orderings(s.rows[t])
SqlSelectAll(s, t, col) ==
  {q \in Orderings(s.rows[t]) :
     \A i, j \in DOMAIN q : i < j => ~BinaryLess(q[j][col], q[i][col])}

\* x LIKE pattern: % is any run of characters, _ any one character, letters
\* of ASCII match in either case; NULL LIKE pattern is not true.
LikeFold(ch) == LowerChar(ch)
RECURSIVE LikeMatch(_, _)
LikeMatch(pat, txt) ==
  IF pat = <<>> THEN txt = <<>>
  ELSE IF Head(pat) = "%"
    THEN LikeMatch(Tail(pat), txt) \/ (txt # <<>> /\ LikeMatch(pat, Tail(txt)))
  ELSE IF txt = <<>> THEN FALSE
  ELSE /\ Head(pat) = "_" \/ LikeFold(Head(pat)) = LikeFold(Head(txt))
       /\ LikeMatch(Tail(pat), Tail(txt))
Like(v, pat) == v # Null /\ LikeMatch(pat, Chars(v))

\* `%${keyword}%`
Template(keyword) == <<"%">> \o Chars(keyword) \o <<"%">>

\* SELECT * FROM t WHERE c1 LIKE ? OR c2 LIKE ? ... ORDER BY col ASC
SqlSearch(s, t, cols, col, keyword) ==
  LET hits == {r \in s.rows[t] : \E c \in cols : Like(r[c], Template(keyword))}
  IN {q \in Orderings(hits) :
        \A i, j \in DOMAIN q : i < j => ~BinaryLess(q[j][col], q[i][col])}

\* SELECT * FROM mahasiswa ORDER BY datetime(created_at) DESC LIMIT ?
\* created_at holds the clock's reading as CURRENT_TIMESTAMP wrote it, which
\* datetime() gives back; a negative LIMIT is no limit.
SqlSelectRecent_Oldest(s, limit) ==
  {SubSeq(q, 1, IF limit < 0 \/ limit > Len(q) THEN Len(q) ELSE limit) :
     q \in {o \in Orderings(s.rows["mahasiswa"]) :
              \A i, j \in DOMAIN o : i < j => o[i].created_at <= o[j].created_at}}
SqlSelectRecent(s, limit) ==
  {SubSeq(q, 1, IF limit < 0 \/ limit > Len(q) THEN Len(q) ELSE limit) :
     q \in {o \in Orderings(s.rows["mahasiswa"]) :
              \A i, j \in DOMAIN o : i < j => o[i].created_at >= o[j].created_at}}

\* What a read gives its caller: the rows, or the store's error thrown on.
Query_ThrowsOnEmpty(fault, rows) ==
  IF fault \/ rows = <<>> THEN [ok |-> FALSE, msg |-> MsgIOError, out |-> <<>>]
                          ELSE [ok |-> TRUE, msg |-> <<>>, out |-> rows]
Query(fault, rows) ==
  IF fault THEN [ok |-> FALSE, msg |-> MsgIOError, out |-> <<>>]
           ELSE [ok |-> TRUE, msg |-> <<>>, out |-> rows]

\* `result || null`
RowOrNull(rows) == rows

getMahasiswaById(s, id, fault) ==
  Rethrow(Query(fault, RowOrNull(SqlSelectById(s, "mahasiswa", id))))
getProdiById(s, id, fault) ==
  Rethrow(Query(fault, RowOrNull(SqlSelectById(s, "prodi", id))))
getFakultasById(s, id, fault) ==
  Rethrow(Query(fault, RowOrNull(SqlSelectById(s, "fakultas", id))))

getAllMahasiswa(s, fault) ==
  {Rethrow(Query(fault, q)) : q \in SqlSelectAll(s, "mahasiswa", "nama")}
getAllProdi(s, fault) ==
  {Rethrow(Query(fault, q)) : q \in SqlSelectAll(s, "prodi", "nama_prodi")}
getAllFakultas(s, fault) ==
  {Rethrow(Query(fault, q)) : q \in SqlSelectAll(s, "fakultas", "nama_fakultas")}

MahasiswaSearchColumns == {"nama", "nim", "jurusan", "fakultas", "email"}
ProdiSearchColumns == {"nama_prodi", "kode_prodi", "fakultas", "akreditasi"}
FakultasSearchColumns == {"nama_fakultas", "kode_fakultas", "deskripsi"}

searchMahasiswa(s, keyword, fault) ==
  {Rethrow(Query(fault, q)) :
     q \in SqlSearch(s, "mahasiswa", MahasiswaSearchColumns, "nama", keyword)}
searchProdi(s, keyword, fault) ==
  {Rethrow(Query(fault, q)) :
     q \in SqlSearch(s, "prodi", ProdiSearchColumns, "nama_prodi", keyword)}
searchFakultas(s, keyword, fault) ==
  {Rethrow(Query(fault, q)) :
     q \in SqlSearch(s, "fakultas", FakultasSearchColumns, "nama_fakultas", keyword)}

DefaultLimit == 5
getRecentMahasiswa(s, limit, fault) ==
  {Rethrow(Query(fault, q)) : q \in SqlSelectRecent(s, limit)}

\* ------------------------------------------------------------ inputs
\* A few records per entity: two that share the unique key and differ in the
\* rest, one with another key; optional properties left out, empty and given.
Mhs(nim, nama, fak) ==
  [nim |-> nim, nama |-> nama, jurusan |-> "TI", fakultas |-> fak, semester |-> 1,
   email |-> "a@x"]
MahasiswaInputs ==
  {Mhs("N1", "Budi", Null), Mhs("N1", "Ani", "Teknik"), Mhs("N2", "Ani", "Teknik")}
Usr(name, email, password) == [name |-> name, email |-> email, password |-> password]
UserInputs == {Usr("A", "a@x", "p"), Usr("B", "A@X", "q"), Usr("B", "b@x", "p")}
Prd(kode, nama, akr, desk) ==
  [kode_prodi |-> kode, nama_prodi |-> nama, fakultas |-> "Teknik",
   akreditasi |-> akr, deskripsi |-> desk]
ProdiInputs ==
  {Prd("TI", "Sistem", Undefined, Undefined), Prd("TI", "Informatika", "A", "d"),
   Prd("SI", "Informatika", "", "")}
Fak(kode, nama, desk) ==
  [kode_fakultas |-> kode, nama_fakultas |-> nama, deskripsi |-> desk]
FakultasInputs ==
  {Fak("FT", "Teknik", Undefined), Fak("FT", "Ekonomi", "d"), Fak("FE", "Ekonomi", "")}
Ids == 1..MaxId

\* A statement touches one table and no table refers to another, so a run
\* works on the table of its first insert; the other tables stay empty.
OnlyTable(t) == \A u \in TableNames \ {t} : seq[u] = 0
RoomFor(t) == Cardinality(store.rows[t]) < MaxRows /\ seq[t] < MaxId

guardVars == <<db, initPromise, promise, attempt, caller, handles, store0,
               opens, stmtCount, faults, uiVars>>

\* What a data-access call leaves behind: the store, and its outcome in `last`.
Outcome(fn, arg, r) ==
  /\ store' = r.store
  /\ seq' = r.seq
  /\ last' = [fn |-> fn, ok |-> r.ok, msg |-> r.msg, id |-> r.id, arg |-> arg,
              out |-> <<>>]
  /\ UNCHANGED <<now, guardVars>>

\* --------------------------------------------------------------- calls
\* The connection is Ready, so `await getDatabase()` returns db.
DoAddMahasiswa ==
  /\ ~NeedsInit /\ OnlyTable("mahasiswa") /\ RoomFor("mahasiswa")
  /\ \E m \in MahasiswaInputs : Outcome("addMahasiswa", 0, addMahasiswa(store, seq, now, m))

DoUpdateMahasiswa ==
  /\ ~NeedsInit /\ OnlyTable("mahasiswa")
  /\ \E id \in Ids, m \in MahasiswaInputs :
        Outcome("updateMahasiswa", id, updateMahasiswa(store, seq, id, m))

DoDeleteMahasiswa ==
  /\ ~NeedsInit /\ OnlyTable("mahasiswa")
  /\ \E id \in Ids : Outcome("deleteMahasiswa", id, deleteMahasiswa(store, seq, id))

DoAddUser ==
  /\ ~NeedsInit /\ OnlyTable("users") /\ RoomFor("users")
  /\ \E u \in UserInputs : Outcome("addUser", 0, addUser(store, seq, now, u))

DoDeleteUser ==
  /\ ~NeedsInit /\ OnlyTable("users")
  /\ \E id \in Ids : Outcome("deleteUser", id, deleteUser(store, seq, id))

DoAddProdi ==
  /\ ~NeedsInit /\ OnlyTable("prodi") /\ RoomFor("prodi")
  /\ \E p \in ProdiInputs : Outcome("addProdi", 0, addProdi(store, seq, now, p))

DoUpdateProdi ==
  /\ ~NeedsInit /\ OnlyTable("prodi")
  /\ \E id \in Ids, p \in ProdiInputs :
        Outcome("updateProdi", id, updateProdi(store, seq, id, p))

DoDeleteProdi ==
  /\ ~NeedsInit /\ OnlyTable("prodi")
  /\ \E id \in Ids : Outcome("deleteProdi", id, deleteProdi(store, seq, id))

DoAddFakultas ==
  /\ ~NeedsInit /\ OnlyTable("fakultas") /\ RoomFor("fakultas")
  /\ \E f \in FakultasInputs : Outcome("addFakultas", 0, addFakultas(store, seq, now, f))

DoUpdateFakultas ==
  /\ ~NeedsInit /\ OnlyTable("fakultas")
  /\ \E id \in Ids, f \in FakultasInputs :
        Outcome("updateFakultas", id, updateFakultas(store, seq, id, f))

DoDeleteFakultas ==
  /\ ~NeedsInit /\ OnlyTable("fakultas")
  /\ \E id \in Ids : Outcome("deleteFakultas", id, deleteFakultas(store, seq, id))

\* A read leaves the store alone; its outcome in `last` holds the rows.
Keywords == {"e", "si", "SI", "%", "_"}
Limits == {1, 2, DefaultLimit}

Answer(fn, arg, r) ==
  /\ last' = [fn |-> fn, ok |-> r.ok, msg |-> r.msg, id |-> 0, arg |-> arg,
              out |-> r.out]
  /\ UNCHANGED <<store, seq, now, guardVars>>

DoGetMahasiswaById ==
  /\ ~NeedsInit /\ OnlyTable("mahasiswa")
  /\ \E id \in Ids, fault \in BOOLEAN :
        Answer("getMahasiswaById", id, getMahasiswaById(store, id, fault))

DoGetProdiById ==
  /\ ~NeedsInit /\ OnlyTable("prodi")
  /\ \E id \in Ids, fault \in BOOLEAN :
        Answer("getProdiById", id, getProdiById(store, id, fault))

DoGetFakultasById ==
  /\ ~NeedsInit /\ OnlyTable("fakultas")
  /\ \E id \in Ids, fault \in BOOLEAN :
        Answer("getFakultasById", id, getFakultasById(store, id, fault))

DoGetAllMahasiswa ==
  /\ ~NeedsInit /\ OnlyTable("mahasiswa")
  /\ \E fault \in BOOLEAN : \E r \in getAllMahasiswa(store, fault) :
        Answer("getAllMahasiswa", 0, r)

DoGetAllProdi ==
  /\ ~NeedsInit /\ OnlyTable("prodi")
  /\ \E fault \in BOOLEAN : \E r \in getAllProdi(store, fault) :
        Answer("getAllProdi", 0, r)

DoGetAllFakultas ==
  /\ ~NeedsInit /\ OnlyTable("fakultas")
  /\ \E fault \in BOOLEAN : \E r \in getAllFakultas(store, fault) :
        Answer("getAllFakultas", 0, r)

DoSearchMahasiswa ==
  /\ ~NeedsInit /\ OnlyTable("mahasiswa")
  /\ \E k \in Keywords, fault \in BOOLEAN : \E r \in searchMahasiswa(store, k, fault) :
        Answer("searchMahasiswa", k, r)

DoSearchProdi ==
  /\ ~NeedsInit /\ OnlyTable("prodi")
  /\ \E k \in Keywords, fault \in BOOLEAN : \E r \in searchProdi(store, k, fault) :
        Answer("searchProdi", k, r)

DoSearchFakultas ==
  /\ ~NeedsInit /\ OnlyTable("fakultas")
  /\ \E k \in Keywords, fault \in BOOLEAN : \E r \in searchFakultas(store, k, fault) :
        Answer("searchFakultas", k, r)

DoGetRecentMahasiswa ==
  /\ ~NeedsInit /\ OnlyTable("mahasiswa")
  /\ \E limit \in Limits, fault \in BOOLEAN :
        \E r \in getRecentMahasiswa(store, limit, fault) :
           Answer("getRecentMahasiswa", limit, r)

\* The store's clock moves on between calls.
Tick ==
  /\ now < MaxTime
  /\ now' = now + 1
  /\ UNCHANGED <<store, seq, last, guardVars>>

\* The state one initDatabase() call leaves on a first start: Ready, the four
\* tables created and empty.
InitCrud ==
  /\ db = 1
  /\ initPromise = 1
  /\ promise = [a \in Callers |->
       IF a = 1 THEN [state |-> "fulfilled", value |-> 1, err |-> "none"] ELSE NoPromiseRec]
  /\ attempt = [a \in Callers |->
       IF a = 1 THEN [pc |-> "ready", database |-> 1, alter |-> "exists", failedAt |-> "none"]
       ELSE NoAttempt]
  /\ caller = [c \in Callers |->
       IF c = 1 THEN [IdleCaller EXCEPT !.pc = "returned", !.kind = "init", !.awaits = 1,
                                        !.result = 1, !.sawState = "Uninitialized"]
       ELSE IdleCaller]
  /\ handles = [a \in Callers |-> IF a = 1 THEN "open" ELSE "none"]
  /\ store = [tables |-> TableNames, hasFakultasCol |-> TRUE,
              rows |-> [t \in TableNames |-> {}]]
  /\ store0 = FreshStore
  /\ opens = 1
  /\ stmtCount = [s \in (StepNames \cup TableNames \cup {"alter"}) \ {"open"} |-> 1]
  /\ faults = 0
  /\ seq = [t \in TableNames |-> 0]
  /\ now = 0
  /\ last = NoCall
  /\ user = NoUser
  /\ session = NoUser
  /\ proc = [p \in Procs |-> IdleProc]
  /\ screen = NoScreen

NextCrud ==
  \/ DoAddMahasiswa \/ DoUpdateMahasiswa \/ DoDeleteMahasiswa
  \/ DoAddUser \/ DoDeleteUser
  \/ DoAddProdi \/ DoUpdateProdi \/ DoDeleteProdi
  \/ DoAddFakultas \/ DoUpdateFakultas \/ DoDeleteFakultas
  \/ DoGetMahasiswaById \/ DoGetProdiById \/ DoGetFakultasById
  \/ DoGetAllMahasiswa \/ DoGetAllProdi \/ DoGetAllFakultas
  \/ DoSearchMahasiswa \/ DoSearchProdi \/ DoSearchFakultas
  \/ DoGetRecentMahasiswa
  \/ Tick

SpecCrud == InitCrud /\ [][NextCrud]_vars

\* C9: in every state reached by creates, updates and deletes, no two rows
\* of mahasiswa share a nim, no two rows of prodi a kode_prodi, no two rows of
\* fakultas a kode_fakultas and no two rows of users an email.
C9_UniqueKeys ==
  \A t \in TableNames : \A r1, r2 \in store.rows[t] :
     r1 # r2 => r1[UniqueColumn[t]] # r2[UniqueColumn[t]]

C9_Witness ==
  /\ last.fn = "updateMahasiswa" /\ ~last.ok /\ IsUniqueViolation(last.msg)
  /\ Cardinality(store.rows["mahasiswa"]) = 2

\* C10: in every reachable state, a create whose key (nim, kode_prodi,
\* kode_fakultas, or the email in any letter case) is the key of an existing
\* row throws an error naming the UNIQUE constraint and leaves the store as
\* it was.
KeyTaken(t, key) == \E r \in store.rows[t] : r[UniqueColumn[t]] = key
SameIgnoringCase(e1, e2) ==
  /\ Len(Chars(e1)) = Len(Chars(e2))
  /\ \A i \in 1..Len(Chars(e1)) : LowerChar(Chars(e1)[i]) = LowerChar(Chars(e2)[i])
Rejected(r) == ~r.ok /\ IsUniqueViolation(r.msg) /\ r.store = store /\ r.seq = seq

C10_DuplicateCreateFails ==
  /\ \A m \in MahasiswaInputs :
        KeyTaken("mahasiswa", m.nim) => Rejected(addMahasiswa(store, seq, now, m))
  /\ \A p \in ProdiInputs :
        KeyTaken("prodi", p.kode_prodi) => Rejected(addProdi(store, seq, now, p))
  /\ \A f \in FakultasInputs :
        KeyTaken("fakultas", f.kode_fakultas) => Rejected(addFakultas(store, seq, now, f))
  /\ \A u \in UserInputs :
        (\E r \in store.rows["users"] : SameIgnoringCase(r.email, u.email))
           => Rejected(addUser(store, seq, now, u))
  /\ last.fn \in {"addMahasiswa", "addUser", "addProdi", "addFakultas"} =>
        (last.ok \/ IsUniqueViolation(last.msg))

\* addUser failed on a store whose only user is a@x, while the inputs a@x and
\* A@X are the only ones it rejects.
C10_Witness ==
  /\ last.fn = "addUser" /\ ~last.ok /\ IsUniqueViolation(last.msg)
  /\ {r.email : r \in store.rows["users"]} = {"a@x"}
  /\ Rejected(addUser(store, seq, now, Usr("B", "A@X", "q")))
  /\ ~Rejected(addUser(store, seq, now, Usr("B", "b@x", "p")))

\* ================================================== round trips
\* A field of an input and the column read back: a property left out of the
\* input is null in the row.
Absent(x, c) == c \notin NumericColumns /\ x[c] \in {Undefined, Null}
ReadsBack(x, out) ==
  /\ Len(out) = 1
  /\ \A c \in DOMAIN x : IF Absent(x, c) THEN out[1][c] = Null ELSE out[1][c] = x[c]
\* The same, with an empty string in an optional column of prodi or fakultas
\* read back as null.
OptionalColumns == {"akreditasi", "deskripsi"}
AbsentOrEmpty(x, c) == c \in OptionalColumns /\ x[c] \in {Undefined, Null, ""}
ReadsBackNormalised(x, out) ==
  /\ Len(out) = 1
  /\ \A c \in DOMAIN x :
        IF Absent(x, c) \/ AbsentOrEmpty(x, c)
          THEN out[1][c] = Null ELSE out[1][c] = x[c]

ThenReads(r, g, x) == r.ok => (g.ok /\ ReadsBack(x, g.out))
ThenReadsNormalised(r, g, x) == r.ok => (g.ok /\ ReadsBackNormalised(x, g.out))

\* C11 as stated: in every reachable state, for every input of a student,
\* program or faculty, a create that succeeds followed by getById of the
\* returned id gives a row whose fields equal the input's.
C11_RoundTripAsStated ==
  /\ \A m \in MahasiswaInputs :
        LET r == addMahasiswa(store, seq, now, m)
        IN ThenReads(r, getMahasiswaById(r.store, r.id, FALSE), m)
  /\ \A p \in ProdiInputs :
        LET r == addProdi(store, seq, now, p)
        IN ThenReads(r, getProdiById(r.store, r.id, FALSE), p)
  /\ \A f \in FakultasInputs :
        LET r == addFakultas(store, seq, now, f)
        IN ThenReads(r, getFakultasById(r.store, r.id, FALSE), f)

\* C11, amended: in every reachable state, for every input of a student,
\* program or faculty, a create that succeeds followed by getById of the
\* returned id gives a row whose fields equal the input's, except that an
\* akreditasi or deskripsi given as the empty string is read back as null;
\* and the id a create has just returned is the id of a row.
C11_CreateRoundTrip ==
  /\ \A m \in MahasiswaInputs :
        LET r == addMahasiswa(store, seq, now, m)
        IN ThenReadsNormalised(r, getMahasiswaById(r.store, r.id, FALSE), m)
  /\ \A p \in ProdiInputs :
        LET r == addProdi(store, seq, now, p)
        IN ThenReadsNormalised(r, getProdiById(r.store, r.id, FALSE), p)
  /\ \A f \in FakultasInputs :
        LET r == addFakultas(store, seq, now, f)
        IN ThenReadsNormalised(r, getFakultasById(r.store, r.id, FALSE), f)
  /\ (last.fn = "addMahasiswa" /\ last.ok) =>
        Len(getMahasiswaById(store, last.id, FALSE).out) = 1
  /\ (last.fn = "addProdi" /\ last.ok) =>
        Len(getProdiById(store, last.id, FALSE).out) = 1
  /\ (last.fn = "addFakultas" /\ last.ok) =>
        Len(getFakultasById(store, last.id, FALSE).out) = 1

\* The second prodi was created from an input with empty akreditasi and
\* deskripsi and is read back with both null.
C11_Witness ==
  /\ last.fn = "addProdi" /\ last.ok /\ last.id = 2
  /\ LET g == getProdiById(store, last.id, FALSE)
     IN /\ ReadsBackNormalised(Prd("SI", "Informatika", "", ""), g.out)
        /\ ~ReadsBack(Prd("SI", "Informatika", "", ""), g.out)

\* The rows an update of row id of table t leaves as they were.
OthersKept(s, r, t, id) ==
  /\ {x \in r.store.rows[t] : x.id # id} = {x \in s.rows[t] : x.id # id}
  /\ \A u \in TableNames \ {t} : r.store.rows[u] = s.rows[u]
HasRow(s, t, id) == \E x \in s.rows[t] : x.id = id


\* C12 as stated: in every reachable state, for every existing id and every
\* input, an update that succeeds followed by getById(id) gives a row whose
\* fields equal the input's, and every other row is as it was.
C12_OverwriteAsStated ==
  \A id \in Ids :
    /\ \A m \in MahasiswaInputs : HasRow(store, "mahasiswa", id) =>
          LET r == updateMahasiswa(store, seq, id, m)
          IN /\ ThenReads(r, getMahasiswaById(r.store, id, FALSE), m)
             /\ OthersKept(store, r, "mahasiswa", id)
    /\ \A p \in ProdiInputs : HasRow(store, "prodi", id) =>
          LET r == updateProdi(store, seq, id, p)
          IN /\ ThenReads(r, getProdiById(r.store, id, FALSE), p)
             /\ OthersKept(store, r, "prodi", id)
    /\ \A f \in FakultasInputs : HasRow(store, "fakultas", id) =>
          LET r == updateFakultas(store, seq, id, f)
          IN /\ ThenReads(r, getFakultasById(r.store, id, FALSE), f)
             /\ OthersKept(store, r, "fakultas", id)

\* C12, amended: in every reachable state, for every existing id and every
\* input, an update that succeeds followed by getById(id) gives a row whose
\* fields equal the input's, except that an akreditasi or deskripsi given as
\* the empty string is read back as null; no field keeps its old value
\* otherwise, and every other row is as it was.
C12_UpdateOverwrites ==
  \A id \in Ids :
    /\ \A m \in MahasiswaInputs : HasRow(store, "mahasiswa", id) =>
          LET r == updateMahasiswa(store, seq, id, m)
          IN /\ ThenReadsNormalised(r, getMahasiswaById(r.store, id, FALSE), m)
             /\ OthersKept(store, r, "mahasiswa", id)
    /\ \A p \in ProdiInputs : HasRow(store, "prodi", id) =>
          LET r == updateProdi(store, seq, id, p)
          IN /\ ThenReadsNormalised(r, getProdiById(r.store, id, FALSE), p)
             /\ OthersKept(store, r, "prodi", id)
    /\ \A f \in FakultasInputs : HasRow(store, "fakultas", id) =>
          LET r == updateFakultas(store, seq, id, f)
          IN /\ ThenReadsNormalised(r, getFakultasById(r.store, id, FALSE), f)
             /\ OthersKept(store, r, "fakultas", id)

\* Row 1 of prodi, created with akreditasi "A", was updated from an input
\* that leaves akreditasi out; the row holds null there, beside another row.
C12_Witness ==
  /\ last.fn = "updateProdi" /\ last.ok /\ last.arg = 1
  /\ Cardinality(store.rows["prodi"]) = 2
  /\ ReadsBack(Prd("TI", "Sistem", Undefined, Undefined),
               getProdiById(store, 1, FALSE).out)

\* ================================================== not found
NotFound == [ok |-> TRUE, msg |-> <<>>, out |-> <<>>]
StoreFault(r) == ~r.ok /\ r.msg = MsgIOError
ById(t, s, id, fault) ==
  CASE t = "mahasiswa" -> getMahasiswaById(s, id, fault)
    [] t = "prodi" -> getProdiById(s, id, fault)
    [] t = "fakultas" -> getFakultasById(s, id, fault)
DeleteOf(t, s, sq, id) ==
  CASE t = "mahasiswa" -> deleteMahasiswa(s, sq, id)
    [] t = "prodi" -> deleteProdi(s, sq, id)
    [] t = "fakultas" -> deleteFakultas(s, sq, id)
Entities == {"mahasiswa", "prodi", "fakultas"}
GetByIdOf == [mahasiswa |-> "getMahasiswaById", prodi |-> "getProdiById",
              fakultas |-> "getFakultasById"]
DeleteFnOf == [mahasiswa |-> "deleteMahasiswa", prodi |-> "deleteProdi",
               fakultas |-> "deleteFakultas"]
UpdateFnOf == [mahasiswa |-> "updateMahasiswa", prodi |-> "updateProdi",
               fakultas |-> "updateFakultas"]

\* C13: in every reachable state and for every id, getById of an id no row
\* has returns null without throwing; getById throws exactly when the store
\* faults; getById(id) after delete(id) returns null; and a getById that has
\* just run either returned or threw the store's error, null when no row has
\* the id.
C13_GetByIdNotFound ==
  \A t \in Entities :
    /\ \A id \in Ids :
          /\ ~HasRow(store, t, id) => ById(t, store, id, FALSE) = NotFound
          /\ ById(t, store, id, FALSE).ok
          /\ StoreFault(ById(t, store, id, TRUE))
          /\ ById(t, DeleteOf(t, store, seq, id).store, id, FALSE) = NotFound
    /\ last.fn = GetByIdOf[t] =>
          /\ last.ok \/ last.msg = MsgIOError
          /\ (last.ok /\ ~HasRow(store, t, last.arg)) => last.out = <<>>
    /\ last.fn = DeleteFnOf[t] => ById(t, store, last.arg, FALSE) = NotFound

\* getMahasiswaById returned null for an id that a row had and a delete took
\* away, while another row is there.
C13_Witness ==
  /\ last.fn = "getMahasiswaById" /\ last.ok /\ last.out = <<>>
  /\ last.arg <= seq["mahasiswa"]
  /\ store.rows["mahasiswa"] # {}

\* ================================================== no such id
InputsOf(t) ==
  CASE t = "mahasiswa" -> MahasiswaInputs
    [] t = "prodi" -> ProdiInputs
    [] t = "fakultas" -> FakultasInputs
UpdateOf(t, s, sq, id, x) ==
  CASE t = "mahasiswa" -> updateMahasiswa(s, sq, id, x)
    [] t = "prodi" -> updateProdi(s, sq, id, x)
    [] t = "fakultas" -> updateFakultas(s, sq, id, x)
Silent(r) == r.ok /\ r.store = store /\ r.seq = seq
RowsButId(s, t, id) == {x \in s.rows[t] : x.id # id}

C14_Inv ==
  \A t \in Entities : \A id \in Ids :
    /\ ~HasRow(store, t, id) =>
          /\ \A x \in InputsOf(t) : Silent(UpdateOf(t, store, seq, id, x))
          /\ Silent(DeleteOf(t, store, seq, id))
    /\ HasRow(store, t, id) =>
          LET r == DeleteOf(t, store, seq, id)
          IN /\ r.ok
             /\ r.store.rows[t] = RowsButId(store, t, id)
             /\ Cardinality(r.store.rows[t]) = Cardinality(store.rows[t]) - 1
             /\ \A u \in TableNames \ {t} : r.store.rows[u] = store.rows[u]

C14_Step ==
  \A t \in Entities :
    /\ (last'.fn = UpdateFnOf[t] /\ ~HasRow(store, t, last'.arg)) =>
          last'.ok /\ store' = store
    /\ last'.fn = DeleteFnOf[t] =>
          /\ last'.ok
          /\ store'.rows[t] = RowsButId(store, t, last'.arg)
          /\ \A u \in TableNames \ {t} : store'.rows[u] = store.rows[u]

\* C14: in every reachable state, an update or a delete with an id no row has
\* returns without error and leaves every table as it was, and a delete with
\* the id of a row removes that row and no other; every update and delete
\* step the program takes does so.
C14_MissingIdIsNoOp == [](C14_Inv) /\ [][C14_Step]_vars

\* updateProdi returned for an id no row of the non-empty table has.
C14_Witness ==
  /\ last.fn = "updateProdi" /\ last.ok
  /\ ~HasRow(store, "prodi", last.arg)
  /\ store.rows["prodi"] # {}

\* ================================================== creation timestamp
\* The created_at of row id of table t in store s.
CreatedAt(s, t, id) == (CHOOSE x \in s.rows[t] : x.id = id).created_at

C15_Step ==
  \A t \in TableNames : \A id \in Ids :
    /\ (HasRow(store, t, id) /\ HasRow(store', t, id)) =>
          CreatedAt(store', t, id) = CreatedAt(store, t, id)
    /\ (~HasRow(store, t, id) /\ HasRow(store', t, id)) =>
          CreatedAt(store', t, id) = now

\* C15: in every step the program takes, a row that is there before and
\* after keeps its created_at, and a row that appears has the clock's reading
\* of its insert; so a row's created_at is at all times the value its insert
\* gave it, whatever updates follow.
C15_CreatedAtIsFixed == [][C15_Step]_vars

\* A mahasiswa row created at time 0 holds, at time 1 and after an update of
\* it, the values of the update and created_at 0.
C15_Witness ==
  /\ last.fn = "updateMahasiswa" /\ last.ok /\ now = 1
  /\ HasRow(store, "mahasiswa", last.arg)
  /\ CreatedAt(store, "mahasiswa", last.arg) = 0
  /\ \E x \in store.rows["mahasiswa"] : x.id # last.arg /\ x.created_at = 1

\* ================================================== references by name
\* The three tables together: a faculty, a program of that faculty, a student
\* of that program and faculty, as the forms store them (the name, no key).
RefFakultasInputs == {Fak("FT", "Teknik", Undefined), Fak("FE", "Ekonomi", Undefined)}
RefProdiInputs == {Prd("TI", "Informatika", "A", Undefined)}
RefMahasiswaInputs == {[Mhs("N1", "Budi", "Teknik") EXCEPT !.jurusan = "Informatika"]}

RefAddFakultas ==
  /\ ~NeedsInit /\ RoomFor("fakultas")
  /\ \E f \in RefFakultasInputs : Outcome("addFakultas", 0, addFakultas(store, seq, now, f))

RefUpdateFakultas ==
  /\ ~NeedsInit
  /\ \E id \in Ids, f \in RefFakultasInputs :
        Outcome("updateFakultas", id, updateFakultas(store, seq, id, f))

RefDeleteFakultas ==
  /\ ~NeedsInit
  /\ \E id \in Ids : Outcome("deleteFakultas", id, deleteFakultas(store, seq, id))

RefAddProdi ==
  /\ ~NeedsInit /\ RoomFor("prodi")
  /\ \E p \in RefProdiInputs : Outcome("addProdi", 0, addProdi(store, seq, now, p))

RefAddMahasiswa ==
  /\ ~NeedsInit /\ RoomFor("mahasiswa")
  /\ \E m \in RefMahasiswaInputs :
        Outcome("addMahasiswa", 0, addMahasiswa(store, seq, now, m))

RefDeleteMahasiswa ==
  /\ ~NeedsInit
  /\ \E id \in Ids : Outcome("deleteMahasiswa", id, deleteMahasiswa(store, seq, id))

\* ProdiScreen.handleDelete once the user has confirmed: deleteProdi(id), then
\* the list is loaded again; an error only shows an alert.
handleDelete(s, sq, id) == deleteProdi(s, sq, id)

HandleDelete ==
  /\ ~NeedsInit
  /\ \E id \in Ids : Outcome("deleteProdi", id, handleDelete(store, seq, id))

NextRefs ==
  \/ RefAddFakultas \/ RefUpdateFakultas \/ RefDeleteFakultas
  \/ RefAddProdi \/ RefAddMahasiswa \/ RefDeleteMahasiswa
  \/ HandleDelete

SpecRefs == InitCrud /\ [][NextRefs]_vars

\* The fakultas names that rows of prodi and mahasiswa hold.
ReferencedNames(s) ==
  {r.fakultas : r \in s.rows["prodi"]}
    \cup ({r.fakultas : r \in s.rows["mahasiswa"]} \ {Null})
FakultasNames(s) == {r.nama_fakultas : r \in s.rows["fakultas"]}
Dangling(s) == ReferencedNames(s) \ FakultasNames(s) # {}
Referenced(s, id) ==
  \E f \in s.rows["fakultas"] : f.id = id /\ f.nama_fakultas \in ReferencedNames(s)
Referrers(s) == <<s.rows["prodi"], s.rows["mahasiswa"]>>

C16_Inv ==
  \A id \in Ids : Referenced(store, id) =>
    /\ LET r == deleteFakultas(store, seq, id)
       IN r.ok /\ Referrers(r.store) = Referrers(store) /\ Dangling(r.store)
    /\ \A f \in RefFakultasInputs :
          LET r == updateFakultas(store, seq, id, f)
          IN /\ r.ok \/ IsUniqueViolation(r.msg)
             /\ Referrers(r.store) = Referrers(store)
             /\ (r.ok /\ f.nama_fakultas \notin FakultasNames(store)) => Dangling(r.store)

C16_Step ==
  /\ last'.fn = "deleteFakultas" =>
        last'.ok /\ Referrers(store') = Referrers(store)
  /\ last'.fn = "updateFakultas" =>
        /\ last'.ok \/ IsUniqueViolation(last'.msg)
        /\ Referrers(store') = Referrers(store)

\* C16: in every reachable state, deleting a faculty whose name rows of prodi
\* or mahasiswa hold returns without error, leaves every row of prodi and
\* mahasiswa as it was and leaves a name no faculty has; an update of it fails
\* only on the UNIQUE code, leaves those rows as they were, and when it gives
\* the faculty a new name leaves the old name dangling; every delete and
\* update of a faculty the program takes leaves prodi and mahasiswa alone.
C16_ReferencesByNameOnly == [](C16_Inv) /\ [][C16_Step]_vars

\* After deleteFakultas a program and a student still name a faculty that no
\* row of fakultas has, though a faculty was created.
C16_Witness ==
  /\ last.fn = "deleteFakultas" /\ last.ok
  /\ seq["fakultas"] > 0
  /\ store.rows["prodi"] # {} /\ store.rows["mahasiswa"] # {}
  /\ \A r \in store.rows["prodi"] \cup store.rows["mahasiswa"] :
        r.fakultas \notin FakultasNames(store)

\* A row of prodi whose nama_prodi is the jurusan of a row of mahasiswa.
InUse(s, id) ==
  \E p \in s.rows["prodi"] :
    p.id = id /\ \E m \in s.rows["mahasiswa"] : m.jurusan = p.nama_prodi

\* C17: in every step the program takes, deleteProdi of a prodi whose
\* nama_prodi is the jurusan of a mahasiswa row does not remove that prodi.
C17_UsedProdiIsKept ==
  [][(last'.fn = "deleteProdi" /\ InUse(store, last'.arg))
        => HasRow(store', "prodi", last'.arg)]_vars

\* ================================================== ordering
NameColumn == [mahasiswa |-> "nama", prodi |-> "nama_prodi", fakultas |-> "nama_fakultas"]
AllOf(t, s, fault) ==
  CASE t = "mahasiswa" -> getAllMahasiswa(s, fault)
    [] t = "prodi" -> getAllProdi(s, fault)
    [] t = "fakultas" -> getAllFakultas(s, fault)
GetAllOf == [mahasiswa |-> "getAllMahasiswa", prodi |-> "getAllProdi",
             fakultas |-> "getAllFakultas"]

\* Every row of S once, and no name before a smaller one.
EachOnce(out, S) ==
  /\ Len(out) = Cardinality(S)
  /\ {out[i] : i \in DOMAIN out} = S
Ascending(out, col) ==
  \A i, j \in DOMAIN out : i < j =>
     (out[i][col] = out[j][col] \/ BinaryLess(out[i][col], out[j][col]))

\* C18: in every state reached by creates, updates and deletes in any order,
\* every result getAll may give for mahasiswa, prodi and fakultas holds each
\* row of the table exactly once, in ascending order of nama, nama_prodi and
\* nama_fakultas; so does the result of a getAll that has just run.
C18_GetAllSorted ==
  \A t \in Entities :
    /\ AllOf(t, store, FALSE) # {}
    /\ \A r \in AllOf(t, store, FALSE) :
          r.ok /\ EachOnce(r.out, store.rows[t]) /\ Ascending(r.out, NameColumn[t])
    /\ (last.fn = GetAllOf[t] /\ last.ok) =>
          EachOnce(last.out, store.rows[t]) /\ Ascending(last.out, NameColumn[t])

\* getAllMahasiswa gave Ani before Budi though Budi was inserted first.
C18_Witness ==
  /\ last.fn = "getAllMahasiswa" /\ last.ok /\ Len(last.out) = 2
  /\ last.out[1].nama = "Ani" /\ last.out[2].nama = "Budi"
  /\ last.out[1].id > last.out[2].id

\* ================================================== search
SearchColumns == [mahasiswa |-> MahasiswaSearchColumns, prodi |-> ProdiSearchColumns,
                  fakultas |-> FakultasSearchColumns]
SearchOf(t, s, keyword, fault) ==
  CASE t = "mahasiswa" -> searchMahasiswa(s, keyword, fault)
    [] t = "prodi" -> searchProdi(s, keyword, fault)
    [] t = "fakultas" -> searchFakultas(s, keyword, fault)

\* Column value v holds keyword k as a substring, letters in either case.
ContainsIgnoringCase(v, k) ==
  /\ v # Null
  /\ \E off \in 0..(Len(Chars(v)) - Len(Chars(k))) :
        \A i \in 1..Len(Chars(k)) :
           LowerChar(Chars(v)[off + i]) = LowerChar(Chars(k)[i])
Matching(t, s, k) ==
  {r \in s.rows[t] : \E c \in SearchColumns[t] : ContainsIgnoringCase(r[c], k)}

\* C19: in every reachable state, for every non-empty keyword (among them %
\* and _), every result search may give holds exactly the rows of which a
\* searched column contains the keyword as a substring in either letter
\* case, each once, in the order of getAll.
C19_SearchIsSubstringMatch ==
  \A t \in Entities : \A k \in Keywords :
    \A r \in SearchOf(t, store, k, FALSE) :
       /\ r.ok
       /\ EachOnce(r.out, Matching(t, store, k))
       /\ Ascending(r.out, NameColumn[t])

\* ================================================== recent
\* out is what getRecent(k) should give of the rows S: k of them (all when
\* there are fewer), each once, latest first, none left out that is later
\* than one given.
RecentOf(out, S, k) ==
  /\ Len(out) = (IF Cardinality(S) >= k THEN k ELSE Cardinality(S))
  /\ \A i \in DOMAIN out : out[i] \in S
  /\ \A i, j \in DOMAIN out : i < j =>
        out[i] # out[j] /\ out[i].created_at >= out[j].created_at
  /\ \A x \in S \ {out[i] : i \in DOMAIN out} : \A i \in DOMAIN out :
        x.created_at <= out[i].created_at

\* C20: in every reachable state and for every limit k, every result
\* getRecentMahasiswa(k) may give holds k rows when at least k exist and all
\* rows otherwise, ordered latest created_at first, with no row left out
\* that is later than a row given; so does the result of a call that has
\* just run.
C20_RecentOrdering ==
  /\ \A k \in Limits :
        /\ getRecentMahasiswa(store, k, FALSE) # {}
        /\ \A r \in getRecentMahasiswa(store, k, FALSE) :
              r.ok /\ RecentOf(r.out, store.rows["mahasiswa"], k)
  /\ (last.fn = "getRecentMahasiswa" /\ last.ok) =>
        RecentOf(last.out, store.rows["mahasiswa"], last.arg)

\* getRecentMahasiswa(1) gave the later of two rows.
C20_Witness ==
  /\ last.fn = "getRecentMahasiswa" /\ last.ok /\ last.arg = 1
  /\ Cardinality(store.rows["mahasiswa"]) = 2
  /\ Len(last.out) = 1 /\ last.out[1].created_at = 1
  /\ \E x \in store.rows["mahasiswa"] : x.created_at = 0

\* ================================================== optional fields
OptionalOf == [mahasiswa |-> {"fakultas"}, prodi |-> {"akreditasi", "deskripsi"},
               fakultas |-> {"deskripsi"}]
CreateOf(t, s, sq, time, x) ==
  CASE t = "mahasiswa" -> addMahasiswa(s, sq, time, x)
    [] t = "prodi" -> addProdi(s, sq, time, x)
    [] t = "fakultas" -> addFakultas(s, sq, time, x)
LeftOut(x, c) == [x EXCEPT ![c] = Undefined]
\* Row id of table t, read by getById from store s, holds NULL in column c.
ReadsNull(t, s, id, c) ==
  LET g == ById(t, s, id, FALSE)
  IN g.ok /\ Len(g.out) = 1 /\ g.out[1][c] = Null /\ g.out[1][c] # ""

\* C21: in every reachable state, for every input with an optional field
\* (prodi akreditasi, prodi deskripsi, fakultas deskripsi, mahasiswa
\* fakultas) left out, the row read by getById after a create that succeeds,
\* and after an update of an existing row that succeeds, holds NULL in that
\* column, not the empty string.
C21_LeftOutIsNull ==
  \A t \in Entities : \A c \in OptionalOf[t] : \A x \in InputsOf(t) :
    /\ LET r == CreateOf(t, store, seq, now, LeftOut(x, c))
       IN r.ok => ReadsNull(t, r.store, r.id, c)
    /\ \A id \in Ids : HasRow(store, t, id) =>
          LET r == UpdateOf(t, store, seq, id, LeftOut(x, c))
          IN r.ok => ReadsNull(t, r.store, id, c)

\* The prodi just created from the input that leaves out akreditasi and
\* deskripsi holds NULL in both.
C21_Witness ==
  /\ last.fn = "addProdi" /\ last.ok
  /\ \E r \in store.rows["prodi"] : r.id = last.id /\ r.nama_prodi = "Sistem"
  /\ ReadsNull("prodi", store, last.id, "akreditasi")
  /\ ReadsNull("prodi", store, last.id, "deskripsi")

\* ================================================== failed initialisation
Opened(a) == attempt[a].database # NoHandle

\* C25: the handle of an attempt that failed after its open succeeded is not
\* the stored connection, is not held by any caller as its result and is not
\* the value of the attempt's promise; when the attempt has thrown,
\* closeAsync() has been called on the handle (it is closed, or the close
\* itself failed) and the error thrown is the one of the failed step, not
\* the one of the close.
C25_FailedHandleIsClosed ==
  \A a \in Callers : (AttemptFailed(a) /\ Opened(a)) =>
    /\ db # a
    /\ \A c \in Callers : caller[c].result # a
    /\ promise[a].value = NoHandle
    /\ attempt[a].pc = "failed" =>
          /\ handles[a] \in {"closed", "leaked"}
          /\ promise[a].state = "rejected"
          /\ promise[a].err = attempt[a].failedAt
          /\ promise[a].err \in StepNames \ {"open"}

\* An attempt failed on a statement, its close failed too, and its caller got
\* the statement's error.
C25_Witness ==
  \E a \in Callers :
    /\ attempt[a].pc = "failed" /\ Opened(a)
    /\ handles[a] = "leaked"
    /\ InitFailed(a) /\ caller[a].err = attempt[a].failedAt

\* An attempt is active from its call of openDatabaseAsync until its block
\* has thrown or returned, the close in the catch block included.
Active(a) == attempt[a].pc \in StepNames \cup {"closing"}

\* C26: at most one initialisation attempt is active at a time, the close of
\* a failed attempt counted: no attempt is at openDatabaseAsync or at a
\* schema statement while another attempt still awaits closeAsync(), and no
\* two handles are open at once.
C26_OneAttemptAtATime ==
  /\ Cardinality({a \in Callers : Active(a)}) <= 1
  /\ Cardinality({a \in Callers : handles[a] = "open"}) <= 1

\* ================================================== failures of a statement
\* The entity and the operation kind of each data-access function.
Attribution ==
  [addMahasiswa |-> <<"mahasiswa", "add">>, updateMahasiswa |-> <<"mahasiswa", "update">>,
   deleteMahasiswa |-> <<"mahasiswa", "delete">>, getAllMahasiswa |-> <<"mahasiswa", "getAll">>,
   getMahasiswaById |-> <<"mahasiswa", "getById">>, searchMahasiswa |-> <<"mahasiswa", "search">>,
   getRecentMahasiswa |-> <<"mahasiswa", "getAll">>,
   addUser |-> <<"users", "add">>, deleteUser |-> <<"users", "delete">>,
   addProdi |-> <<"prodi", "add">>, updateProdi |-> <<"prodi", "update">>,
   deleteProdi |-> <<"prodi", "delete">>, getAllProdi |-> <<"prodi", "getAll">>,
   getProdiById |-> <<"prodi", "getById">>, searchProdi |-> <<"prodi", "search">>,
   addFakultas |-> <<"fakultas", "add">>, updateFakultas |-> <<"fakultas", "update">>,
   deleteFakultas |-> <<"fakultas", "delete">>, getAllFakultas |-> <<"fakultas", "getAll">>,
   getFakultasById |-> <<"fakultas", "getById">>, searchFakultas |-> <<"fakultas", "search">>]
UnderlyingMessages ==
  {MsgIOError} \cup {MsgUnique(t) : t \in TableNames} \cup {MsgNotNull(t) : t \in TableNames}

\* C24: the error that a failed create, getAll, getById, update, delete or
\* search call gives its caller names the entity and the operation kind and
\* contains the message of the statement that failed.
C24_FailureIsAttributed ==
  (last.fn \in DOMAIN Attribution /\ ~last.ok) =>
    /\ Includes(last.msg, <<Attribution[last.fn][1]>>)
    /\ Includes(last.msg, <<Attribution[last.fn][2]>>)
    /\ \E u \in UnderlyingMessages : Includes(last.msg, u)

\* ================================================== empty optional fields
GivenEmpty(x, c) == [x EXCEPT ![c] = ""]

\* C27: no optional column of a stored row holds the empty string, and for
\* every entity alike an optional field given as the empty string (prodi
\* akreditasi, prodi deskripsi, fakultas deskripsi, mahasiswa fakultas) is
\* stored as NULL by a create that succeeds and by an update of an existing
\* row that succeeds.
C27_EmptyIsNullEverywhere ==
  /\ \A t \in Entities : \A r \in store.rows[t] : \A c \in OptionalOf[t] : r[c] # ""
  /\ \A t \in Entities : \A c \in OptionalOf[t] : \A x \in InputsOf(t) :
       /\ LET r == CreateOf(t, store, seq, now, GivenEmpty(x, c))
          IN r.ok => ReadsNull(t, r.store, r.id, c)
       /\ \A id \in Ids : HasRow(store, t, id) =>
             LET r == UpdateOf(t, store, seq, id, GivenEmpty(x, c))
             IN r.ok => ReadsNull(t, r.store, id, c)

\* ================================================== users by email
\* SELECT * FROM users WHERE email = ? (getFirstAsync: the first row or none).
SqlSelectByEmail(s, email) ==
  LET hits == {r \in s.rows["users"] : r.email = email}
  IN IF hits = {} THEN <<>> ELSE <<CHOOSE r \in hits : TRUE>>

getUserByEmail_AsGiven(s, email, fault) ==
  Rethrow(Query(fault, RowOrNull(SqlSelectByEmail(s, email))))
getUserByEmail(s, email, fault) ==
  Rethrow(Query(fault, RowOrNull(SqlSelectByEmail(s, toLowerCase(email)))))

authenticateUser_AnyPassword(s, email, password, fault) ==
  Rethrow(getUserByEmail(s, email, fault))
authenticateUser(s, email, password, fault) ==
  LET u == getUserByEmail(s, email, fault)
  IN Rethrow(IF ~u.ok \/ u.out = <<>> THEN u
             ELSE IF u.out[1].password = password THEN u ELSE [u EXCEPT !.out = <<>>])

\* ------------------------------------------------ AuthProvider
Result(success, message) == [success |-> success, message |-> message, threw |-> FALSE]
Thrown(message) == [success |-> FALSE, message |-> message, threw |-> TRUE]
MsgWrongLogin == "Email atau password salah"
MsgLoginError == "Terjadi kesalahan saat login"
MsgEmailTaken == "Email sudah terdaftar, gunakan email lain"
MsgRegisterError == "Terjadi kesalahan saat registrasi"

\* The catch block of register(): log, return a failure result.
RegisterCatch_Rethrow == Thrown(MsgRegisterError)
RegisterCatch == Result(FALSE, MsgRegisterError)
\* The catch block of login().
LoginCatch == Result(FALSE, MsgLoginError)

RegisterInputs == {Usr("A", "a@x", "p"), Usr("B", "A@X", "q")}
Credentials == {Usr("", "A@X", "p"), Usr("", "a@x", "q")}

\* A storage call may fail while faults are left to inject.
FaultChoice == IF faults < MaxFaults THEN {FALSE, TRUE} ELSE {FALSE}
Injected(fault) == IF fault THEN faults + 1 ELSE faults

Finish(p, result) == [proc EXCEPT ![p].pc = "done", ![p].ret = result]

\* register({name, email, password}) is called and runs up to
\* `await getUserByEmail(email)`.
Register(p) ==
  /\ ~NeedsInit
  /\ proc[p].pc = "idle"
  /\ \E u \in RegisterInputs :
       proc' = [proc EXCEPT ![p] =
                  [IdleProc EXCEPT !.fn = "register", !.pc = "lookup", !.name = u.name,
                                   !.email = u.email, !.password = u.password,
                                   !.before = <<user, session>>]]
  /\ UNCHANGED <<db, initPromise, promise, attempt, caller, handles, store, store0,
                 opens, stmtCount, faults, seq, now, last, user, session, screen>>

\* The lookup has run; register() returns the "email taken" failure, or goes
\* on to `await addUser(...)`, or lands in its catch block.
RegisterLookup(p) ==
  /\ proc[p].fn = "register" /\ proc[p].pc = "lookup"
  /\ \E fault \in FaultChoice :
       LET existing == getUserByEmail(store, proc[p].email, fault) IN
       /\ faults' = Injected(fault)
       /\ proc' = IF ~existing.ok
                    THEN [Finish(p, RegisterCatch) EXCEPT ![p].existing = "error"]
                  ELSE IF existing.out # <<>>
                    THEN [Finish(p, Result(FALSE, MsgEmailTaken)) EXCEPT ![p].existing = "found"]
                  ELSE [proc EXCEPT ![p].pc = "insert", ![p].existing = "null"]
  /\ UNCHANGED <<db, initPromise, promise, attempt, caller, handles, store, store0,
                 opens, stmtCount, seq, now, last, user, session, screen>>

\* The INSERT of addUser has run; register() returns success, or lands in
\* its catch block when addUser threw.
RegisterInsert(p) ==
  /\ proc[p].fn = "register" /\ proc[p].pc = "insert"
  /\ \E fault \in FaultChoice :
       LET u == Usr(proc[p].name, proc[p].email, proc[p].password)
           r == IF fault
                  THEN [ok |-> FALSE, msg |-> MsgIOError, id |-> 0, store |-> store,
                        seq |-> seq]
                  ELSE addUser(store, seq, now, u)
       IN /\ faults' = Injected(fault)
          /\ store' = r.store
          /\ seq' = r.seq
          /\ proc' = Finish(p, IF r.ok THEN Result(TRUE, "none") ELSE RegisterCatch)
  /\ UNCHANGED <<db, initPromise, promise, attempt, caller, handles, store0,
                 opens, stmtCount, now, last, user, session, screen>>

\* login(email, password) is called and runs up to `await authenticateUser`.
Login(p) ==
  /\ ~NeedsInit
  /\ proc[p].pc = "idle"
  /\ \E u \in Credentials :
       proc' = [proc EXCEPT ![p] =
                  [IdleProc EXCEPT !.fn = "login", !.pc = "authenticate",
                                   !.email = u.email, !.password = u.password,
                                   !.before = <<user, session>>]]
  /\ UNCHANGED <<db, initPromise, promise, attempt, caller, handles, store, store0,
                 opens, stmtCount, faults, seq, now, last, user, session, screen>>

\* authenticateUser has answered: login() returns a failure, or calls
\* setUser(authenticated) and runs up to the await inside persistUser.
LoginAuthenticate(p) ==
  /\ proc[p].fn = "login" /\ proc[p].pc = "authenticate"
  /\ \E fault \in FaultChoice :
       LET authenticated == authenticateUser(store, proc[p].email, proc[p].password, fault)
       IN /\ faults' = Injected(fault)
          /\ IF ~authenticated.ok
               THEN proc' = Finish(p, LoginCatch) /\ UNCHANGED user
             ELSE IF authenticated.out = <<>>
               THEN proc' = Finish(p, Result(FALSE, MsgWrongLogin)) /\ UNCHANGED user
             ELSE /\ user' = authenticated.out
                  /\ proc' = [proc EXCEPT ![p].pc = "persist"]
  /\ UNCHANGED <<db, initPromise, promise, attempt, caller, handles, store, store0,
                 opens, stmtCount, seq, now, last, session, screen>>

\* SecureStore.setItemAsync(SESSION_KEY, ...) has settled: login() returns
\* success, or lands in its catch block when the write failed.
LoginPersist(p) ==
  /\ proc[p].fn = "login" /\ proc[p].pc = "persist"
  /\ \E fault \in FaultChoice :
       /\ faults' = Injected(fault)
       /\ IF fault
            THEN proc' = Finish(p, LoginCatch) /\ UNCHANGED session
            ELSE proc' = Finish(p, Result(TRUE, "none")) /\ session' = user
  /\ UNCHANGED <<db, initPromise, promise, attempt, caller, handles, store, store0,
                 opens, stmtCount, seq, now, last, user, screen>>

NextAuth ==
  \/ \E p \in Procs : Register(p)
  \/ \E p \in Procs : RegisterLookup(p)
  \/ \E p \in Procs : RegisterInsert(p)
  \/ \E p \in Procs : Login(p)
  \/ \E p \in Procs : LoginAuthenticate(p)
  \/ \E p \in Procs : LoginPersist(p)

SpecAuth == InitCrud /\ [][NextAuth]_vars

\* ================================================== register and login
EmailTaken(s, email) == \E r \in s.rows["users"] : SameIgnoringCase(r.email, email)
StructuredFailure(ret) == ~ret.success /\ ~ret.threw /\ ret.message # "none"

\* C22: every step of a register call whose email equals, ignoring case, the
\* email of a user that exists ends the call with a structured failure
\* result (a result, not an exception) and leaves the users table as it was.
C22_Step ==
  \A p \in Procs :
    (/\ proc[p].fn = "register"
     /\ proc[p].pc \in {"lookup", "insert"}
     /\ EmailTaken(store, proc[p].email)
     /\ proc'[p] # proc[p]) =>
       /\ proc'[p].pc = "done"
       /\ StructuredFailure(proc'[p].ret)
       /\ store'.rows["users"] = store.rows["users"]
       /\ seq' = seq

C22_TakenEmailIsRefused == [][C22_Step]_vars

\* register("B", "A@X", "q") was refused because "a@x" is registered, and the
\* table still holds only that user.
C22_Witness ==
  \E p \in Procs :
    /\ proc[p].fn = "register" /\ proc[p].pc = "done" /\ proc[p].email = "A@X"
    /\ proc[p].existing = "found"
    /\ proc[p].ret = Result(FALSE, MsgEmailTaken)
    /\ \A r \in store.rows["users"] : r.email = "a@x" /\ r.name = "A"
    /\ Cardinality(store.rows["users"]) = 1

Passwords == {"p", "q"}
Matches(s, email, password) ==
  {r \in s.rows["users"] : r.email = toLowerCase(email) /\ r.password = password}

\* C23: when the statement does not fail, authenticate(email, password)
\* returns a record exactly when a users row has email = lowercase(email) and
\* the given password, and the record is that row; otherwise it returns
\* "not authenticated" and does not throw; after register(name, e, p) has
\* succeeded authenticate(e, p) returns the record with that name; and no
\* step of a login changes the users table.
C23_Inv ==
  /\ \A e \in EmailStrings : \A pw \in Passwords :
       LET r == authenticateUser(store, e, pw, FALSE) IN
       /\ r.ok
       /\ r.out # <<>> <=> Matches(store, e, pw) # {}
       /\ r.out # <<>> => r.out[1] \in Matches(store, e, pw)
  /\ \A p \in Procs :
       (proc[p].fn = "register" /\ proc[p].pc = "done" /\ proc[p].ret.success) =>
          LET r == authenticateUser(store, proc[p].email, proc[p].password, FALSE)
          IN r.ok /\ r.out # <<>> /\ r.out[1].name = proc[p].name
  /\ \A p \in Procs :
       (proc[p].fn = "login" /\ proc[p].pc \in {"persist", "done"}
          /\ (proc[p].pc = "persist" \/ proc[p].ret.success)) =>
            /\ user # NoUser
            /\ user[1] \in Matches(store, proc[p].email, proc[p].password)

C23_Step ==
  \A p \in Procs :
    (proc[p].fn = "login" /\ proc'[p] # proc[p]) => (store' = store /\ seq' = seq)

BothPassedLookup(p, q) ==
  /\ p # q
  /\ proc[p].fn = "register" /\ proc[q].fn = "register"
  /\ SameIgnoringCase(proc[p].email, proc[q].email)
  /\ proc[p].existing = "null" /\ proc[q].existing = "null"
  /\ \A o \in Procs \ {p, q} :
        proc[o].fn = "register" => ~SameIgnoringCase(proc[o].email, proc[p].email)

\* C28: when the store does not fail, two concurrent register calls with the
\* same email ignoring case that both passed the lookup before either
\* inserted end with exactly one users row for that email, one of them
\* returning success and the other a structured failure.
C28_ConcurrentRegisterOneWins ==
  \A p, q \in Procs :
    (faults = 0 /\ BothPassedLookup(p, q)
       /\ proc[p].pc = "done" /\ proc[q].pc = "done") =>
      /\ Cardinality({r \in store.rows["users"] :
                        SameIgnoringCase(r.email, proc[p].email)}) = 1
      /\ proc[p].ret.success # proc[q].ret.success
      /\ ~proc[p].ret.success => StructuredFailure(proc[p].ret)
      /\ ~proc[q].ret.success => StructuredFailure(proc[q].ret)

C28_Witness ==
  \E p, q \in Procs :
    /\ faults = 0 /\ BothPassedLookup(p, q)
    /\ proc[p].pc = "done" /\ proc[q].pc = "done"
    /\ proc[p].ret = Result(TRUE, "none")
    /\ proc[q].ret = Result(FALSE, MsgRegisterError)
    /\ Cardinality(store.rows["users"]) = 1

\* The record a login has authenticated: the row of its email and password.
SessionOf(p) ==
  /\ user # NoUser /\ session = user
  /\ user[1].email = toLowerCase(proc[p].email)
  /\ user[1].password = proc[p].password

\* C29: a login that has returned, with no other login made, returned
\* success: true exactly when the context user and the session store hold
\* the authenticated record, and when it returned success: false the context
\* user and the session store are what they were when it was called.
C29_LoginIsAllOrNothing ==
  \A p \in Procs :
    (/\ proc[p].fn = "login" /\ proc[p].pc = "done"
     /\ \A q \in Procs \ {p} : proc[q].fn # "login") =>
       /\ proc[p].ret.success <=> SessionOf(p)
       /\ ~proc[p].ret.success => <<user, session>> = proc[p].before

\* ================================================== the list screen
\* String.prototype.trim, for strings that are blank or have no blank at
\* either end.
trim(str) == IF \A i \in DOMAIN Chars(str) : Chars(str)[i] = " " THEN "" ELSE str

Queries == {"", " ", "e", "si"}

\* The call the [searchQuery] effect makes for query q: loadMahasiswa(), or
\* handleSearch(q), which itself falls back to loadMahasiswa() on a blank q.
EffectCall(q, gen, from) ==
  [gen |-> gen, from |-> from,
   kind |-> IF trim(q) = "" THEN "load" ELSE "search", keyword |-> q]

\* The screen mounts: both effects run, initializeAndLoadData() (the guard is
\* Ready, so it goes on to loadMahasiswa()) and the [searchQuery] effect.
Mount ==
  /\ ~NeedsInit
  /\ ~screen.mounted
  /\ screen' = [screen EXCEPT !.mounted = TRUE,
                              !.pending = {EffectCall("", 0, "init"),
                                           EffectCall(screen.searchQuery, 0, "effect")}]
  /\ UNCHANGED <<db, initPromise, promise, attempt, caller, handles, store, store0,
                 opens, stmtCount, faults, seq, now, last, user, session, proc>>

\* The user edits the search box: setSearchQuery(q), and the effect runs.
ChangeQuery ==
  /\ screen.mounted
  /\ screen.issued < MaxQueries
  /\ \E q \in Queries \ {screen.searchQuery} :
       screen' = [screen EXCEPT !.searchQuery = q, !.issued = @ + 1,
                                !.pending = @ \cup {EffectCall(q, screen.issued + 1, "effect")}]
  /\ UNCHANGED <<db, initPromise, promise, attempt, caller, handles, store, store0,
                 opens, stmtCount, faults, seq, now, last, user, session, proc>>

\* The statement of a pending call has run and its function resumes:
\* setMahasiswaList(result), or the catch block (an alert for a load, a log
\* line for a search), which leaves the list alone.
Arrive ==
  /\ \E call \in screen.pending : \E fault \in FaultChoice :
       \E r \in (IF call.kind = "load" THEN getAllMahasiswa(store, fault)
                 ELSE searchMahasiswa(store, call.keyword, fault)) :
         /\ faults' = Injected(fault)
         /\ screen' = IF r.ok
                        THEN [screen EXCEPT !.pending = @ \ {call}, !.list = r.out,
                                            !.shown = call.gen]
                        ELSE [screen EXCEPT !.pending = @ \ {call},
                                            !.alert = @ \/ call.kind = "load"]
  /\ UNCHANGED <<db, initPromise, promise, attempt, caller, handles, store, store0,
                 opens, stmtCount, seq, now, last, user, session, proc>>

NextScreen == DoAddMahasiswa \/ Mount \/ ChangeQuery \/ Arrive

SpecScreen == InitCrud /\ [][NextScreen]_vars

\* C30: the result of a search or load issued for an older value of
\* searchQuery never replaces the list that a call issued for a newer value
\* has set, in whatever order the results arrive.
C30_Step == screen'.shown >= screen.shown

C30_StaleResultNeverShown == [][C30_Step]_vars

====
